---- MODULE Spec2Model ----
(***************************************************************************)
(* A model of the docx form filler: the commit engine                      *)
(* (docx_io/fill_text.py, fill_docx.py), the span mapper (map_spans.py,    *)
(* validate.py), the anchor mapper (llm/map_fields.py) and the pipeline    *)
(* driver (pipeline/graph.py).                                             *)
(*                                                                         *)
(* Strings are TLA+ strings; offsets are 0-based as in the Python source   *)
(* and translated to 1-based positions only inside Slice.                  *)
(***************************************************************************)
EXTENDS Integers, Sequences, FiniteSets, TLC

VARIABLES
    runs,        \* the paragraph's runs: a sequence of runs, each a sequence of elements
    siblings,    \* paragraphs inserted after the paragraph, in document order (texts)
    field_spans, \* the spans extract_field_spans found in the template's paragraph
    call,        \* the last commit call: its kind and arguments, and the runs before it
    ret,         \* what the last commit call returned
    map_input,   \* the arguments and environment of a map_field_spans call
    map_result,  \* what map_field_spans returned
    solve_input, \* the anchors, data record and environment of a composite_map call
    solve_result, \* the candidates and the mapping the call has built so far
    pipeline,    \* a run_pipeline call: its arguments, where it stands, what it saved
    state        \* the State dict the nodes of the pipeline pass on

fillVars == <<runs, siblings, field_spans, call, ret>>

mapVars == <<map_input, map_result>>

solveVars == <<solve_input, solve_result>>

pipeVars == <<pipeline, state>>

vars == <<runs, siblings, field_spans, call, ret, map_input, map_result,
          solve_input, solve_result, pipeline, state>>

-----------------------------------------------------------------------------
(* Bounds *)

\* the largest number of runs of the paragraph
MaxRuns == 3

\* the most keys a data record holds
MaxDataKeys == 2

-----------------------------------------------------------------------------
(* Python string helpers *)

Min(a, b) == IF a <= b THEN a ELSE b

Max(a, b) == IF a >= b THEN a ELSE b

\* s[a:b] for 0 <= a, 0 <= b (Python clamps both to len(s))
Slice(s, a, b) == SubSeq(s, Min(a, Len(s)) + 1, Min(b, Len(s)))

\* s[a:]
SliceFrom(s, a) == Slice(s, a, Len(s))

\* the character at 0-based offset i
CharAt(s, i) == SubSeq(s, i + 1, i + 1)

\* sub in s
Contains(s, sub) ==
    \E i \in 0..(Len(s) - Len(sub)) : Slice(s, i, i + Len(sub)) = sub

\* s.find(sub, from): the first offset at or after from, or -1
FindFrom(s, sub, from) ==
    IF \E i \in from..(Len(s) - Len(sub)) : Slice(s, i, i + Len(sub)) = sub
    THEN CHOOSE i \in from..(Len(s) - Len(sub)) :
             /\ Slice(s, i, i + Len(sub)) = sub
             /\ \A j \in from..(i - 1) : Slice(s, j, j + Len(sub)) # sub
    ELSE -1

\* s.split(sep) with a one-character separator; p is the first offset of sep
RECURSIVE Split(_, _)
SplitAt(s, sep, p) ==
    IF p = -1 THEN <<s>> ELSE <<Slice(s, 0, p)>> \o Split(SliceFrom(s, p + 1), sep)

Split(s, sep) == SplitAt(s, sep, FindFrom(s, sep, 0))

IsSpace(c) == c \in {" ", "\n", "\t"}

RECURSIVE LStrip(_)
LStrip(s) ==
    IF Len(s) > 0 /\ IsSpace(CharAt(s, 0)) THEN LStrip(SliceFrom(s, 1)) ELSE s

RECURSIVE RStrip(_)
RStrip(s) ==
    IF Len(s) > 0 /\ IsSpace(CharAt(s, Len(s) - 1))
    THEN RStrip(Slice(s, 0, Len(s) - 1)) ELSE s

\* s.strip()
Strip(s) == LStrip(RStrip(s))

\* "".join(seq)
RECURSIVE JoinAll(_)
JoinAll(seq) == IF Len(seq) = 0 THEN "" ELSE Head(seq) \o JoinAll(Tail(seq))

\* sep.join(seq)
RECURSIVE JoinWith(_, _)
JoinWith(seq, sep) ==
    IF Len(seq) = 0 THEN ""
    ELSE IF Len(seq) = 1 THEN Head(seq)
    ELSE Head(seq) \o sep \o JoinWith(Tail(seq), sep)

\* s.split(): the maximal runs of non-whitespace characters
RECURSIVE WordEnd(_, _)
WordEnd(t, i) == IF i < Len(t) /\ ~IsSpace(CharAt(t, i)) THEN WordEnd(t, i + 1) ELSE i

RECURSIVE SplitWs(_)
FirstWordAnd(t, e) == <<Slice(t, 0, e)>> \o SplitWs(SliceFrom(t, e))

WordsOf(t) == IF t = "" THEN <<>> ELSE FirstWordAnd(t, WordEnd(t, 0))

SplitWs(s) == WordsOf(LStrip(s))

UpperLetters == "ABCDEFGHIJKLMNOPQRSTUVWXYZ"

LowerLetters == "abcdefghijklmnopqrstuvwxyz"

Digits == "0123456789"

\* the characters of a string, as a set
CharsOf(s) == {CharAt(s, i) : i \in 0..(Len(s) - 1)}

UpperSet == CharsOf(UpperLetters)

LetterSet == CharsOf(UpperLetters) \cup CharsOf(LowerLetters)

DigitSet == CharsOf(Digits)

LowerChar(c) ==
    IF c \in UpperSet
    THEN CharAt(LowerLetters, CHOOSE i \in 0..25 : CharAt(UpperLetters, i) = c)
    ELSE c

\* s.lower(), character by character over the halves of the string
RECURSIVE Lower(_)
Lower(s) ==
    IF Len(s) <= 1 THEN LowerChar(s)
    ELSE Lower(Slice(s, 0, Len(s) \div 2)) \o Lower(SliceFrom(s, Len(s) \div 2))

IsDigit(c) == c \in DigitSet

IsLetter(c) == c \in LetterSet

\* a character the regular expression class \w holds
IsWordChar(c) == IsDigit(c) \/ IsLetter(c) \/ c = "_"

\* s.isdigit()
IsDigitStr(s) == Len(s) > 0 /\ \A i \in 0..(Len(s) - 1) : IsDigit(CharAt(s, i))

\* any(ch.isdigit() for ch in s)
HasDigit(s) == \E i \in 0..(Len(s) - 1) : IsDigit(CharAt(s, i))

\* s with every character of the set dropped: chained s.replace(c, "")
RECURSIVE DropChars(_, _)
DropChars(s, drop) ==
    IF Len(s) <= 1 THEN (IF s \in drop THEN "" ELSE s)
    ELSE DropChars(Slice(s, 0, Len(s) \div 2), drop)
         \o DropChars(SliceFrom(s, Len(s) \div 2), drop)

\* int(s) of a digit string
RECURSIVE DigitsValue(_)
DigitsValue(s) ==
    IF s = "" THEN 0
    ELSE 10 * DigitsValue(Slice(s, 0, Len(s) - 1))
         + (CHOOSE d \in 0..9 : CharAt(Digits, d) = CharAt(s, Len(s) - 1))

\* any(tok in s for tok in toks)
ContainsAny(s, toks) == \E tok \in toks : Contains(s, tok)

-----------------------------------------------------------------------------
(* The document tree interface: a run is a sequence of elements, a text    *)
(* element <w:t> or a line break <w:br/>; run.text reads a break as "\n".  *)

TextElt(s) == [k |-> "t", s |-> s]

BreakElt == [k |-> "br", s |-> "\n"]

\* run.text (getter)
RunText(run) == JoinAll([i \in 1..Len(run) |-> run[i].s])

\* run.text = s (setter): the text is cut at every "\n", each becoming a break
RECURSIVE LineElts(_, _)
LineElts(parts, i) ==
    IF i > Len(parts) THEN <<>>
    ELSE (IF i > 1 THEN <<BreakElt>> ELSE <<>>)
         \o (IF parts[i] = "" THEN <<>> ELSE <<TextElt(parts[i])>>)
         \o LineElts(parts, i + 1)

SetRunText(s) == LineElts(Split(s, "\n"), 1)

\* run.add_break()
AddBreak(run) == Append(run, BreakElt)

\* run.add_text(s): one new text element holding s as it is
AddText(run, s) == Append(run, TextElt(s))

\* "".join(run.text for run in runs), also paragraph.text
ParagraphText(rs) == JoinAll([i \in 1..Len(rs) |-> RunText(rs[i])])

-----------------------------------------------------------------------------
(* docx_io/fill_text.py *)

\* run_spans: the (start, end) offsets each run owns
RunSpanStart(rs, idx) == Len(ParagraphText(SubSeq(rs, 1, idx - 1)))

run_spans(rs) ==
    [idx \in 1..Len(rs) |->
        [s |-> RunSpanStart(rs, idx), e |-> RunSpanStart(rs, idx) + Len(RunText(rs[idx]))]]

\* the run whose range holds span_end: the loop stops there (0 stands for None)
EndIdxOf(sp, span_end) ==
    LET hits == {idx \in 1..Len(sp) : sp[idx].s < span_end /\ span_end <= sp[idx].e}
    IN  IF hits = {} THEN 0 ELSE CHOOSE idx \in hits : \A j \in hits : idx <= j

\* the first run whose range holds span_start, among those the loop visits
StartIdxOf(sp, span_start, end_idx) ==
    LET last == IF end_idx = 0 THEN Len(sp) ELSE end_idx
        hits == {idx \in 1..last : sp[idx].s <= span_start /\ span_start < sp[idx].e}
    IN  IF hits = {} THEN 0 ELSE CHOOSE idx \in hits : \A j \in hits : idx <= j

\* the start run after the call: prefix + first segment, a break and a text
\* element per further segment, then the suffix when the span ends in this run
RECURSIVE AddSegments(_, _)
AddSegments(run, segs) ==
    IF Len(segs) = 0 THEN run
    ELSE AddSegments(AddText(AddBreak(run), Head(segs)), Tail(segs))

\* the suffix is appended when the span ends in the start run
WithSuffix(run, suffix, single) ==
    IF single /\ suffix # "" THEN AddText(run, suffix) ELSE run

\* the start run loses the text that followed the span
StartRunAfter_SuffixLost(prefix, segments, suffix, single) ==
    AddSegments(SetRunText(prefix \o segments[1]), Tail(segments))

StartRunAfter(prefix, segments, suffix, single) ==
    WithSuffix(AddSegments(SetRunText(prefix \o segments[1]), Tail(segments)), suffix, single)

\* the text of run idx that follows the span
SuffixOf(rs, sp, idx, span_end) ==
    SliceFrom(RunText(rs[idx]), Max(0, span_end - sp[idx].s))

\* the runs strictly between the start run and the end run keep their text
NewRunAt_MiddleKept(rs, sp, idx, start_idx, end_idx, span_start, span_end, segments) ==
    IF idx = start_idx
    THEN StartRunAfter(Slice(RunText(rs[idx]), 0, Max(0, span_start - sp[idx].s)),
                       segments,
                       IF idx = end_idx THEN SuffixOf(rs, sp, idx, span_end) ELSE "",
                       start_idx = end_idx)
    ELSE IF idx = end_idx THEN SetRunText(SuffixOf(rs, sp, idx, span_end))
    ELSE rs[idx]

\* one pass of the loop over the runs from start_idx to end_idx
NewRunAt(rs, sp, idx, start_idx, end_idx, span_start, span_end, segments) ==
    IF idx = start_idx
    THEN StartRunAfter(Slice(RunText(rs[idx]), 0, Max(0, span_start - sp[idx].s)),
                       segments,
                       IF idx = end_idx THEN SuffixOf(rs, sp, idx, span_end) ELSE "",
                       start_idx = end_idx)
    ELSE IF idx = end_idx THEN SetRunText(SuffixOf(rs, sp, idx, span_end))
    ELSE SetRunText("")

\* the runs from start_idx to end_idx are rewritten, unless one was not found
RewriteRuns(rs, sp, start_idx, end_idx, span_start, span_end, segments) ==
    IF start_idx = 0 \/ end_idx = 0 THEN [ok |-> FALSE, runs |-> rs]
    ELSE [ok |-> TRUE,
          runs |-> [idx \in 1..Len(rs) |->
                      IF idx < start_idx \/ idx > end_idx THEN rs[idx]
                      ELSE NewRunAt(rs, sp, idx, start_idx, end_idx,
                                    span_start, span_end, segments)]]

LocateRuns(rs, sp, end_idx, span_start, span_end, replacement) ==
    RewriteRuns(rs, sp, StartIdxOf(sp, span_start, end_idx), end_idx,
                span_start, span_end, Split(replacement, "\n"))

LocateEnd(rs, sp, span_start, span_end, replacement) ==
    LocateRuns(rs, sp, EndIdxOf(sp, span_end), span_start, span_end, replacement)

\* the body of replace_span_across_runs after its two guards: locate the
\* start and end run and rewrite the runs from one to the other
ReplaceLocated(rs, span_start, span_end, replacement) ==
    LocateEnd(rs, run_spans(rs), span_start, span_end, replacement)

\* out-of-range offsets are clamped to the text, as a slice would, instead
\* of being rejected
replace_span_across_runs_Clamping(rs, span_start, span_end, replacement) ==
    IF Len(rs) = 0 \/ span_start >= span_end THEN [ok |-> FALSE, runs |-> rs]
    ELSE ReplaceLocated(rs, Max(0, span_start),
                        Min(span_end, Len(ParagraphText(rs))), replacement)

replace_span_across_runs(rs, span_start, span_end, replacement) ==
    IF Len(rs) = 0 \/ span_start >= span_end THEN [ok |-> FALSE, runs |-> rs]
    ELSE IF span_start < 0 \/ span_end > Len(ParagraphText(rs))
    THEN [ok |-> FALSE, runs |-> rs]
    ELSE ReplaceLocated(rs, span_start, span_end, replacement)

-----------------------------------------------------------------------------
(* Values of the data record: a JSON string, number, null or list of       *)
(* records; s is str(value).                                               *)

StrVal(s) == [ty |-> "str", s |-> s]

NumVal(s) == [ty |-> "num", s |-> s]

NoneVal == [ty |-> "none", s |-> "None"]

ListVal == [ty |-> "list", s |-> "[{}]"]

\* isinstance(value, str)
IsStr(v) == v.ty = "str"

\* isinstance(value, (int, float))
IsNum(v) == v.ty = "num"

\* isinstance(value, (list, dict))
IsListOrDict(v) == v.ty = "list"

-----------------------------------------------------------------------------
(* extract_spans.py *)

\* BLANK_UNDERSCORES = _{2,}
MinUnderscores == 2

\* BLANK_DOTS = \.{4,}
MinDots == 4

\* finditer of c{n,}: the maximal runs of character c that are n long or longer
BlankRuns(text, c, n) ==
    {m \in [start : 0..Len(text), end : 0..Len(text)] :
        /\ m.end - m.start >= n
        /\ \A i \in m.start..(m.end - 1) : CharAt(text, i) = c
        /\ (m.start = 0 \/ CharAt(text, m.start - 1) # c)
        /\ (m.end = Len(text) \/ CharAt(text, m.end) # c)}

\* the ASCII alternatives of CHECKBOX_RE: |_| , [ ] with any whitespace, [x], [X]
CheckboxAt(text, i) ==
    \/ Slice(text, i, i + 3) \in {"|_|", "[x]", "[X]"}
    \/ /\ Len(Slice(text, i, i + 3)) = 3
       /\ CharAt(text, i) = "[" /\ IsSpace(CharAt(text, i + 1)) /\ CharAt(text, i + 2) = "]"

\* finditer of CHECKBOX_RE: leftmost matches that do not overlap
RECURSIVE CheckboxMatches(_, _)
CheckboxMatches(text, from) ==
    IF from + 3 > Len(text) THEN {}
    ELSE IF CheckboxAt(text, from)
         THEN {[start |-> from, end |-> from + 3]} \cup CheckboxMatches(text, from + 3)
         ELSE CheckboxMatches(text, from + 1)

\* a set of matches as a list sorted by (start, end)
RECURSIVE SortedByStart(_)
SortedByStart(ms) ==
    IF ms = {} THEN <<>>
    ELSE LET m == CHOOSE x \in ms : \A y \in ms :
                      x.start < y.start \/ (x.start = y.start /\ x.end <= y.end)
         IN  <<m>> \o SortedByStart(ms \ {m})

\* as extract_spans_from_text, the end offset of a dot run taken one past it
extract_spans_from_text_PastEnd(text) ==
    SortedByStart(
        {[start |-> m.start, end |-> m.end, kind |-> "underscore"] :
            m \in BlankRuns(text, "_", MinUnderscores)}
        \cup {[start |-> m.start, end |-> m.end + 1, kind |-> "dots"] :
            m \in BlankRuns(text, ".", MinDots)}
        \cup {[start |-> m.start, end |-> m.end, kind |-> "checkbox"] :
            m \in CheckboxMatches(text, 0)})

\* _extract_spans_from_text(text): (start, end, kind), sorted by (start, end);
\* the ellipsis character is outside the ASCII inputs
extract_spans_from_text(text) ==
    SortedByStart(
        {[start |-> m.start, end |-> m.end, kind |-> "underscore"] :
            m \in BlankRuns(text, "_", MinUnderscores)}
        \cup {[start |-> m.start, end |-> m.end, kind |-> "dots"] :
            m \in BlankRuns(text, ".", MinDots)}
        \cup {[start |-> m.start, end |-> m.end, kind |-> "checkbox"] :
            m \in CheckboxMatches(text, 0)})

\* _make_slot_id: a hash of (location, left, right, kind, raw), kept as the tuple
make_slot_id(location, left, right, kind, raw) == <<location, left, right, kind, raw>>

\* Location of a body paragraph, as _location_to_dict gives it
BodyLocation(p_idx) == [type |-> "body", table_idx |-> "None", paragraph_idx |-> p_idx]

ContextWindow == 80

\* the record of one span
SpanRecord(location, paragraph_text, idx, m, left, right, raw) ==
    [span_id |-> make_slot_id(location, left, right, m.kind, raw),
     span_index |-> idx - 1,
     start_char |-> m.start,
     end_char |-> m.end,
     blank_kind |-> m.kind,
     raw_placeholder_text |-> raw,
     left_context |-> left,
     right_context |-> right,
     paragraph_text |-> paragraph_text,
     location |-> location]

SpanOf(location, paragraph_text, idx, m) ==
    SpanRecord(location, paragraph_text, idx, m,
               Slice(paragraph_text, Max(0, m.start - ContextWindow), m.start),
               Slice(paragraph_text, m.end, Min(Len(paragraph_text), m.end + ContextWindow)),
               Slice(paragraph_text, m.start, m.end))

RECURSIVE SpansFrom(_, _, _, _)
SpansFrom(location, paragraph_text, raw_spans, idx) ==
    IF idx > Len(raw_spans) THEN <<>>
    ELSE <<SpanOf(location, paragraph_text, idx, raw_spans[idx])>>
         \o SpansFrom(location, paragraph_text, raw_spans, idx + 1)

\* the spans of a container with text, or the empty cell of a table
TextSpans(location, paragraph_text) ==
    IF paragraph_text = ""
    THEN IF location.table_idx # "None"
         THEN <<SpanRecord(location, "", 1, [start |-> 0, end |-> 0, kind |-> "empty_cell"],
                           "", "", "")>>
         ELSE <<>>
    ELSE SpansFrom(location, paragraph_text, extract_spans_from_text(paragraph_text), 1)

\* extract_field_spans for one container with its location
extract_container_spans(rs, location) == TextSpans(location, ParagraphText(rs))

-----------------------------------------------------------------------------
(* The templates and data records of the span mapper's runs *)

\* the paragraphs of the templates handed to map_field_spans
DocPool ==
    {<<"Subsemnatul ____ data ____">>,
     <<"Nume ____", "Semnatura ____">>,
     <<"durata de ____ zile pana la data ____">>,
     <<"Nume ____">>}

\* the keys a data record may hold, each with its value
KeyValue ==
    ("Nume" :> StrVal("Ion Pop"))
    @@ ("Data completarii" :> StrVal("2024-01-01"))
    @@ ("Data expirarii" :> StrVal("2024-01-31"))
    @@ ("Durata" :> StrVal("30"))

\* extract_field_spans over the paragraphs of a document
RECURSIVE DocSpans(_, _)
DocSpans(doc, p_idx) ==
    IF p_idx >= Len(doc) THEN <<>>
    ELSE extract_container_spans(<<SetRunText(doc[p_idx + 1])>>, BodyLocation(p_idx))
         \o DocSpans(doc, p_idx + 1)

\* the spans extract_field_spans finds in each template
PoolSpans == [doc \in DocPool |-> DocSpans(doc, 0)]

\* the elements of a list, as a set
Range(seq) == {seq[i] : i \in 1..Len(seq)}

PoolSpanSet == UNION {Range(DocSpans(doc, 0)) : doc \in DocPool}

SpanContext(slot) == slot.left_context \o " " \o slot.right_context

\* the texts the mapper normalizes and splits into tokens on these inputs
PoolTexts ==
    UNION {{SpanContext(s), s.paragraph_text} : s \in PoolSpanSet} \cup DOMAIN KeyValue

\* a result computed once for the pool's members, and on the spot for others
Memo(pool, x, computed) == IF x \in DOMAIN pool THEN pool[x] ELSE computed

-----------------------------------------------------------------------------
(* validate.py *)

\* lower-case, then " ".join(text.split()); the inputs are ASCII, so the
\* NFKD step that drops combining marks changes nothing
NormalizeText(value) == JoinWith(SplitWs(Lower(value)), " ")

\* _normalize_text of the pool's texts, computed once
NormalizedPool == [t \in PoolTexts |-> NormalizeText(t)]

validate_normalize_text(value) == Memo(NormalizedPool, value, NormalizeText(value))

\* datetime.strptime(text, "%Y-%m-%d"): four digits, then month and day of
\* one or two digits in range
YMDParts(parts) ==
    /\ Len(parts) = 3
    /\ Len(parts[1]) = 4 /\ IsDigitStr(parts[1])
    /\ Len(parts[2]) \in 1..2 /\ IsDigitStr(parts[2]) /\ DigitsValue(parts[2]) \in 1..12
    /\ Len(parts[3]) \in 1..2 /\ IsDigitStr(parts[3]) /\ DigitsValue(parts[3]) \in 1..31

ParsesYMD(text) == YMDParts(Split(text, "-"))

\* datetime.strptime(text, "%d/%m/%Y")
DMYParts(parts) ==
    /\ Len(parts) = 3
    /\ Len(parts[3]) = 4 /\ IsDigitStr(parts[3])
    /\ Len(parts[2]) \in 1..2 /\ IsDigitStr(parts[2]) /\ DigitsValue(parts[2]) \in 1..12
    /\ Len(parts[1]) \in 1..2 /\ IsDigitStr(parts[1]) /\ DigitsValue(parts[1]) \in 1..31

ParsesDMY(text) == DMYParts(Split(text, "/"))

\* the loop over the two formats, on the stripped text
ParsesDate(text) == ParsesYMD(text) \/ ParsesDMY(text)

is_date(v) == IsStr(v) /\ ParsesDate(Strip(v.s))

\* re.search(r"\b\d+[\d\s\.,]*\b", s): some maximal run of digits stands
\* between word boundaries
HasNumberWord(s) ==
    \E i \in 0..(Len(s) - 1), j \in 1..Len(s) :
        /\ i < j
        /\ IsDigitStr(Slice(s, i, j))
        /\ (i = 0 \/ ~IsWordChar(CharAt(s, i - 1)))
        /\ (j = Len(s) \/ ~IsWordChar(CharAt(s, j)))

\* is_money on the lower-cased text
MoneyText(s) ==
    /\ HasNumberWord(s)
    /\ \/ Contains(s, "lei")
       \/ Contains(s, "ron")
       \/ IsDigitStr(DropChars(Strip(s), {",", "."}))

is_money(v) == IsNum(v) \/ (IsStr(v) /\ MoneyText(Lower(v.s)))

is_percent(v) == IsStr(v) /\ Contains(v.s, "%")

\* is_numericish on the stripped text
NumericText(s, max_len) ==
    /\ Len(s) <= max_len
    /\ Len(SplitWs(s)) <= 2
    /\ IsDigitStr(DropChars(s, {"%", ".", ","}))

is_numericish(v, max_len) == IsNum(v) \/ (IsStr(v) /\ NumericText(Strip(v.s), max_len))

is_orgish(v) ==
    /\ IsStr(v)
    /\ ContainsAny(validate_normalize_text(v.s),
                   {"srl", "sa", "sc", "compania", "institutia", "societatea"})

\* is_personish on the stripped text
PersonText(s) == ~HasDigit(s) /\ Len(SplitWs(s)) \in 1..4

is_personish(v) == IsStr(v) /\ PersonText(Strip(v.s))

\* is_role_title on the stripped text
RoleText(s) == s # "" /\ ~HasDigit(s) /\ ~is_date(StrVal(s)) /\ Len(s) <= 40

is_role_title(v) == IsStr(v) /\ RoleText(Strip(v.s))

\* is_addressish on the stripped text
AddressText(s) == Len(s) >= 12 /\ (Contains(s, ",") \/ HasDigit(s))

is_addressish(v) == IsStr(v) /\ AddressText(Strip(v.s))

\* class SlotType
SlotTypes ==
    {"DATE", "DATE_PARTS", "MONEY", "PERCENT", "NUMBER", "ORG_NAME", "ORG_ADDRESS",
     "PERSON_NAME", "PERSON_ROLE", "CPV_CODE", "CHECKBOX_GROUP", "UNKNOWN"}

\* the chain of keyword tests of infer_slot_type; the ballot-box glyphs are
\* outside the ASCII inputs
InferFrom(slot, text, norm) ==
    IF slot.blank_kind = "checkbox" \/ Contains(text, "|_|") THEN "CHECKBOX_GROUP"
    ELSE IF Contains(norm, "cpv") THEN "CPV_CODE"
    ELSE IF ContainsAny(norm, {"ziua", "luna", "anul"}) THEN "DATE_PARTS"
    ELSE IF Contains(norm, "data") THEN "DATE"
    ELSE IF Contains(text, "%") \/ Contains(norm, "procent") THEN "PERCENT"
    ELSE IF ContainsAny(norm, {"suma", "lei", "valoare", "tva", "taxa"}) THEN "MONEY"
    ELSE IF ContainsAny(norm, {"adresa", "sediu", "domiciliu", "strada", "judet"})
         THEN "ORG_ADDRESS"
    ELSE IF ContainsAny(norm, {"in calitate de", "functie", "reprezentant", "imputernicit"})
         THEN "PERSON_ROLE"
    ELSE IF ContainsAny(norm, {"subsemnatul", "dl", "dna", "nume"}) THEN "PERSON_NAME"
    ELSE IF ContainsAny(norm, {"ofertant", "operator economic", "contractant",
                               "societate", "srl", "sa", "s.c"})
         THEN "ORG_NAME"
    ELSE IF ContainsAny(norm, {"nr", "numar", "cod", "serie", "cif", "cui"}) THEN "NUMBER"
    ELSE "UNKNOWN"

InferFromText(slot, text) == InferFrom(slot, text, validate_normalize_text(text))

\* infer_slot_type(slot)
InferSlotType(slot) ==
    InferFromText(slot, slot.left_context \o " " \o slot.right_context
                        \o " " \o slot.paragraph_text)

\* infer_slot_type of the pool's spans, computed once
SlotTypePool == [s \in PoolSpanSet |-> InferSlotType(s)]

infer_slot_type(slot) == Memo(SlotTypePool, slot, InferSlotType(slot))

\* re.search(r"\b\d{8}-\d\b", s)
HasCpvCode(s) ==
    \E i \in 0..(Len(s) - 10) :
        /\ IsDigitStr(Slice(s, i, i + 8))
        /\ CharAt(s, i + 8) = "-"
        /\ IsDigit(CharAt(s, i + 9))
        /\ (i = 0 \/ ~IsWordChar(CharAt(s, i - 1)))
        /\ (i + 10 = Len(s) \/ ~IsWordChar(CharAt(s, i + 10)))

\* the test value_matches_type makes for a SlotType
MatchesType(v, t) ==
    CASE t = "UNKNOWN" -> TRUE
      [] t = "DATE" -> is_date(v)
      [] t = "DATE_PARTS" -> is_numericish(v, 4) /\ ~is_date(v)
      [] t = "MONEY" -> is_money(v)
      [] t = "PERCENT" ->
            is_percent(v) /\ is_numericish(StrVal(DropChars(v.s, {"%"})), 6)
      [] t = "NUMBER" -> is_numericish(v, 12)
      [] t = "ORG_NAME" -> is_orgish(v)
      [] t = "ORG_ADDRESS" -> is_addressish(v)
      [] t = "PERSON_NAME" -> is_personish(v)
      [] t = "PERSON_ROLE" -> is_role_title(v)
      [] t = "CPV_CODE" -> IsStr(v) /\ HasCpvCode(v.s)
      [] t = "CHECKBOX_GROUP" -> IsStr(v)

\* value_matches_type(value, slot_type); a string that names no SlotType
\* counts as UNKNOWN
value_matches_type(v, slot_type) ==
    MatchesType(v, IF slot_type \in SlotTypes THEN slot_type ELSE "UNKNOWN")

-----------------------------------------------------------------------------
(* fill_docx.py *)

\* dict.get(key): the value, or None
Get(d, k) == IF k \in DOMAIN d THEN d[k] ELSE NoneVal

\* mapping.get(span_id) and expected_types.get(span_id): the string, or "None"
GetName(d, k) == IF k \in DOMAIN d THEN d[k] ELSE "None"

\* _placeholder_only(paragraph, raw)
placeholder_only(rs, raw) == Strip(ParagraphText(rs)) = Strip(raw)

\* the spans are committed in the order extraction found them
SortByStartDesc_Unsorted(sp) == sp

\* container_spans.sort(key=start_char, reverse=True): a stable sort, so spans
\* of equal start keep their order
RECURSIVE SortByStartDesc(_)
SortByStartDesc(sp) ==
    IF Len(sp) = 0 THEN <<>>
    ELSE LET i == CHOOSE x \in 1..Len(sp) :
                     /\ \A y \in 1..Len(sp) : sp[x].start_char >= sp[y].start_char
                     /\ \A y \in 1..(x - 1) : sp[y].start_char < sp[x].start_char
         IN  <<sp[i]>> \o SortByStartDesc(SubSeq(sp, 1, i - 1) \o SubSeq(sp, i + 1, Len(sp)))

\* _insert_paragraph_after(paragraph, text): the new paragraph becomes the
\* paragraph's next sibling
insert_paragraph_after(sibs, text) == <<text>> \o sibs

RECURSIVE InsertAll(_, _)
InsertAll(sibs, lines) ==
    IF Len(lines) = 0 THEN sibs
    ELSE InsertAll(insert_paragraph_after(sibs, Head(lines)), Tail(lines))

Suspicious(span, slot_type, value, reason) ==
    [span_id |-> span.span_id, slot_type |-> slot_type, value |-> value, reason |-> reason]

\* the state the loop of fill_spans_in_docx carries
FillStart(rs) ==
    [runs |-> rs, siblings |-> <<>>, filled |-> 0, suspicious |-> <<>>, fatal |-> "None",
     order |-> <<>>]

\* the call of replace_span_across_runs has returned r: the extra lines
\* become siblings and a placeholder left behind is recorded
FillReplaced(st, span, slot_type, value, susp, multi, lines, r) ==
    IF ~r.ok THEN [st EXCEPT !.suspicious = susp]
    ELSE [st EXCEPT
            !.runs = r.runs,
            !.siblings = IF multi THEN InsertAll(st.siblings, Tail(lines)) ELSE st.siblings,
            !.suspicious =
                IF /\ span.raw_placeholder_text # ""
                   /\ Contains(ParagraphText(r.runs), span.raw_placeholder_text)
                THEN Append(susp, Suspicious(span, slot_type, value,
                                             "placeholder remains after fill"))
                ELSE susp,
            !.filled = st.filled + 1,
            !.order = Append(st.order, span.start_char)]

\* the first line alone is committed when the value has line breaks and the
\* paragraph is nothing but the placeholder, the whole value otherwise
FillLines(st, span, slot_type, value, susp, multi, lines) ==
    FillReplaced(st, span, slot_type, value, susp, multi, lines,
                 replace_span_across_runs(st.runs, span.start_char, span.end_char,
                                          IF multi THEN lines[1] ELSE value.s))

\* a value that fails value_matches_type for the inferred type is recorded
FillTyped(st, span, slot_type, value) ==
    FillLines(st, span, slot_type, value,
              IF value_matches_type(value, slot_type) THEN st.suspicious
              ELSE Append(st.suspicious,
                          Suspicious(span, slot_type, value, "value does not match slot_type")),
              Contains(value.s, "\n") /\ placeholder_only(st.runs, span.raw_placeholder_text),
              Split(value.s, "\n"))

\* a missing value skips the span; the two fatal mismatches raise SystemExit
FillValue(st, span, value, expected) ==
    IF value = NoneVal THEN st
    ELSE IF expected = "DURATION_DAYS" /\ is_date(value)
         THEN [st EXCEPT !.fatal = "DATE value in DURATION_DAYS span"]
    ELSE IF expected = "PERSON_NAME" /\ is_money(value)
         THEN [st EXCEPT !.fatal = "MONEY value in Subsemnatul span"]
    ELSE FillTyped(st, span, infer_slot_type(span), value)

\* an unmapped span is skipped; a computed span takes its computed value
FillKeyed(st, span, key, data_norm, computed_values, expected) ==
    IF key \in {"None", ""} THEN st
    ELSE FillValue(st, span,
                   IF key = "__computed__" THEN Get(computed_values, span.span_id)
                   ELSE Get(data_norm, key),
                   expected)

\* one iteration of the loop over the spans of a container
FillOne(st, span, mapping, data_norm, computed_values, expected_types) ==
    FillKeyed(st, span, GetName(mapping, span.span_id), data_norm, computed_values,
              GetName(expected_types, span.span_id))

RECURSIVE FillLoop(_, _, _, _, _, _)
FillLoop(st, todo, mapping, data_norm, computed_values, expected_types) ==
    IF Len(todo) = 0 \/ st.fatal # "None" THEN st
    ELSE FillLoop(FillOne(st, Head(todo), mapping, data_norm, computed_values, expected_types),
                  Tail(todo), mapping, data_norm, computed_values, expected_types)

\* fill_spans_in_docx on a document of one body paragraph: the spans of kind
\* checkbox are left out, the others committed from the highest start down.
\* A raised SystemExit leaves the paragraph as the spans before it made it.
fill_spans_in_docx(rs, spans, mapping, data_norm, computed_values, expected_types) ==
    FillLoop(FillStart(rs),
             SortByStartDesc(SelectSeq(spans, LAMBDA sp : sp.blank_kind # "checkbox")),
             mapping, data_norm, computed_values, expected_types)

-----------------------------------------------------------------------------
(* map_spans.py.  Scores are the code's floats held exactly, as integers   *)
(* in units of 1/ScoreUnit; the fuzzy ratios of rapidfuzz (0..100) are     *)
(* inputs.                                                                 *)

ScoreUnit == 2000 * 2520

\* n hundredths, in score units
Hundredths(n) == n * (ScoreUnit \div 100)

\* the characters of the inputs in code-point order
CodePoints == " %-./0123456789ABCDEFGHIJKLMNOPQRSTUVWXYZ_abcdefghijklmnopqrstuvwxyz"

CodeTable ==
    [c \in CharsOf(CodePoints) |-> CHOOSE i \in 1..Len(CodePoints) : CharAt(CodePoints, i - 1) = c]

CodeOf(c) == CodeTable[c]

\* a < b for two strings, as Python compares them
RECURSIVE StrLess(_, _)
StrLess(a, b) ==
    IF b = "" THEN FALSE
    ELSE IF a = "" THEN TRUE
    ELSE IF CharAt(a, 0) = CharAt(b, 0) THEN StrLess(SliceFrom(a, 1), SliceFrom(b, 1))
    ELSE CodeOf(CharAt(a, 0)) < CodeOf(CharAt(b, 0))

\* _tokens(value): the maximal runs of word characters of the normalized
\* text, as the set _jaccard makes of them
RECURSIVE TokenEnd(_, _)
TokenEnd(t, i) == IF i < Len(t) /\ IsWordChar(CharAt(t, i)) THEN TokenEnd(t, i + 1) ELSE i

RECURSIVE TokensOf(_)
FirstTokenAnd(t, e) == {Slice(t, 0, e)} \cup TokensOf(SliceFrom(t, e))

TokensOf(t) ==
    IF t = "" THEN {}
    ELSE IF ~IsWordChar(CharAt(t, 0)) THEN TokensOf(SliceFrom(t, 1))
    ELSE FirstTokenAnd(t, TokenEnd(t, 0))

\* _tokens of the pool's texts, computed once
TokensPool == [t \in PoolTexts |-> TokensOf(NormalizeText(t))]

tokens(value) == Memo(TokensPool, value, TokensOf(validate_normalize_text(value)))

\* _jaccard(a, b), in score units
jaccard(a, b) ==
    IF a = {} \/ b = {} THEN 0
    ELSE (Cardinality(a \cap b) * ScoreUnit) \div Max(1, Cardinality(a \cup b))

\* the (token, boost) pairs _candidate_scores collects from the context
Boosts(context, norm_context) ==
    (IF Contains(norm_context, "catre")
        THEN {<<"catre", Hundredths(20)>>, <<"autoritate", Hundredths(20)>>} ELSE {})
    \cup (IF Contains(norm_context, "cif") THEN {<<"cif", Hundredths(30)>>} ELSE {})
    \cup (IF Contains(norm_context, "cpv") THEN {<<"cpv", Hundredths(30)>>} ELSE {})
    \cup (IF "nr" \in tokens(context)
             THEN {<<"nr", Hundredths(15)>>, <<"numar", Hundredths(15)>>} ELSE {})
    \cup (IF Contains(norm_context, "valabila") /\ Contains(norm_context, "pana la data")
             THEN {<<"data expir", Hundredths(20)>>, <<"valabil", Hundredths(20)>>,
                   <<"durata", Hundredths(15)>>}
             ELSE {})

RECURSIVE SumBoosts(_, _)
SumBoosts(boosts, norm_key) ==
    IF boosts = {} THEN 0
    ELSE LET b == CHOOSE x \in boosts : TRUE
         IN  (IF Contains(norm_key, b[1]) THEN b[2] ELSE 0)
             + SumBoosts(boosts \ {b}, norm_key)

\* results.sort(key=(-score, key)) when by_key, and the order rapidfuzz gives
\* its matches otherwise: by descending score, equal scores in list order
SortCandidates(c, by_key) ==
    LET Before(i, j) ==
            \/ c[i].score > c[j].score
            \/ /\ c[i].score = c[j].score
               /\ IF by_key /\ c[i].key # c[j].key THEN StrLess(c[i].key, c[j].key)
                  ELSE i < j
        Pos(i) == Cardinality({j \in 1..Len(c) : Before(j, i)}) + 1
    IN  [p \in 1..Len(c) |-> c[CHOOSE i \in 1..Len(c) : Pos(i) = p]]

TopCandidates == 5

FuzzyLimit == 10

\* results[:5] and the limit of process.extract
TopOf(results, n) == SubSeq(results, 1, Min(n, Len(results)))

\* the keys whose value is no list or dict and matches the slot's type
KeptKeys(data_keys, data_norm, slot_type) ==
    SelectSeq(data_keys,
              LAMBDA key : /\ ~IsListOrDict(data_norm[key])
                           /\ value_matches_type(data_norm[key], slot_type))

\* 0.55 * ratio / 100 + 0.45 * jaccard + boost
ScoreOf(key, ratio, context_tokens, boosts) ==
    55 * ratio[key] * (ScoreUnit \div 10000)
    + (45 * jaccard(context_tokens, tokens(key))) \div 100
    + SumBoosts(boosts, validate_normalize_text(key))

RECURSIVE ScoredFrom(_, _, _, _, _)
ScoredFrom(kept, i, ratio, context_tokens, boosts) ==
    IF i > Len(kept) THEN <<>>
    ELSE <<[key |-> kept[i], score |-> ScoreOf(kept[i], ratio, context_tokens, boosts)]>>
         \o ScoredFrom(kept, i + 1, ratio, context_tokens, boosts)

ScoredKeys(context, kept, ratio) ==
    ScoredFrom(kept, 1, ratio, tokens(context),
               Boosts(context, validate_normalize_text(context)))

\* _candidate_scores(slot, data_keys, data_norm); ratio[key] is
\* fuzz.token_set_ratio(norm_context, norm_key)
candidate_scores(slot, data_keys, data_norm, ratio) ==
    TopOf(SortCandidates(ScoredKeys(SpanContext(slot),
                                    KeptKeys(data_keys, data_norm, infer_slot_type(slot)),
                                    ratio),
                         TRUE),
          TopCandidates)

RECURSIVE FuzzyFrom(_, _, _)
FuzzyFrom(data_keys, i, ratio) ==
    IF i > Len(data_keys) THEN <<>>
    ELSE <<[key |-> data_keys[i], score |-> Hundredths(ratio[data_keys[i]])]>>
         \o FuzzyFrom(data_keys, i + 1, ratio)

\* the fallback of map_field_spans: process.extract(query, keys, WRatio,
\* limit=10); ratio[key] is fuzz.WRatio(query, norm_key)
fuzzy_candidates(data_keys, ratio) ==
    TopOf(SortCandidates(FuzzyFrom(data_keys, 1, ratio), FALSE), FuzzyLimit)

\* the spans of the paragraph a span stands in (spans_by_para)
ParaKey(span) == <<span.location.type, span.location.table_idx, span.location.paragraph_idx>>

ParaGroup(spans, key) == SelectSeq(spans, LAMBDA s : ParaKey(s) = key)

\* sorted(spans, key=start_char): stable
SortByStartAsc(sp) ==
    LET Pos(i) == Cardinality({j \in 1..Len(sp) :
                      \/ sp[j].start_char < sp[i].start_char
                      \/ sp[j].start_char = sp[i].start_char /\ j < i}) + 1
    IN  [p \in 1..Len(sp) |-> sp[CHOOSE i \in 1..Len(sp) : Pos(i) = p]]

\* the duration rule: "durata de ... zile ... pana la data" with two spans
IsDurationParagraph(norm, spans_sorted) ==
    /\ Contains(norm, "durata de") /\ Contains(norm, "zile")
    /\ Contains(norm, "pana la data")
    /\ Len(spans_sorted) >= 2

ExpectedFrom(norm, spans_sorted, sid) ==
    IF IsDurationParagraph(norm, spans_sorted) /\ sid = spans_sorted[2].span_id THEN "DATE"
    ELSE IF IsDurationParagraph(norm, spans_sorted) /\ sid = spans_sorted[1].span_id
         THEN "NUMBER"
    ELSE IF Contains(norm, "subsemnatul") THEN "PERSON_NAME"
    ELSE IF Contains(norm, "catre") THEN "ADDRESSEE"
    ELSE IF Contains(norm, "ofertantul") THEN "ORG_NAME"
    ELSE IF Contains(norm, "tva") \/ Contains(norm, "taxa pe valoarea adaugata")
         THEN "MONEY"
    ELSE IF Contains(norm, "in calitate de") THEN "ROLE_TITLE"
    ELSE IF Contains(norm, "oferta pentru si in numele") THEN "ORG_NAME"
    ELSE "None"

\* _expected_types_for_paragraph(text, spans)[sid], "None" when it has no entry
expected_type_in_paragraph(text, group, sid) ==
    ExpectedFrom(validate_normalize_text(text), SortByStartAsc(group), sid)

ExpectedInGroup(group, sid) ==
    expected_type_in_paragraph(group[1].paragraph_text, group, sid)

SpanWithId(spans, sid) == spans[CHOOSE i \in 1..Len(spans) : spans[i].span_id = sid]

\* expected_types of map_field_spans, over every span
expected_types_of(spans) ==
    [sid \in {spans[i].span_id : i \in 1..Len(spans)} |->
        ExpectedInGroup(ParaGroup(spans, ParaKey(SpanWithId(spans, sid))), sid)]

\* _type_check(expected_type, value, slot)
type_check(expected_type, value, slot) ==
    CASE expected_type = "None" -> value_matches_type(value, infer_slot_type(slot))
      [] expected_type = "DURATION_DAYS" -> is_numericish(value, 10) /\ ~is_date(value)
      [] expected_type = "DATE_UNTIL" -> is_date(value)
      [] expected_type = "PERSON_NAME" -> is_personish(value)
      [] expected_type = "ORG_NAME" -> is_orgish(value)
      [] expected_type = "MONEY" -> is_money(value)
      [] expected_type = "ROLE_TITLE" -> is_role_title(value)
      [] expected_type = "ADDRESSEE" ->
            (is_orgish(value) \/ is_addressish(value)) /\ ~is_date(value)
      [] OTHER -> value_matches_type(value, expected_type)

\* days since 0000-03-01 of a civil date
DayNumber(y, m, d) ==
    LET yy == IF m <= 2 THEN y - 1 ELSE y
        mm == IF m <= 2 THEN m + 9 ELSE m - 3
    IN  365 * yy + yy \div 4 - yy \div 100 + yy \div 400 + (153 * mm + 2) \div 5 + d - 1

DayOfYMD(parts) ==
    DayNumber(DigitsValue(parts[1]), DigitsValue(parts[2]), DigitsValue(parts[3]))

DayOfDMY(parts) ==
    DayNumber(DigitsValue(parts[3]), DigitsValue(parts[2]), DigitsValue(parts[1]))

ParseDateText(text) ==
    IF ParsesYMD(text) THEN DayOfYMD(Split(text, "-"))
    ELSE IF ParsesDMY(text) THEN DayOfDMY(Split(text, "/"))
    ELSE -1

\* _parse_date(value) as a day number, -1 standing for None
parse_date(v) == IF ~IsStr(v) THEN -1 ELSE ParseDateText(Strip(v.s))

\* str(n) for n >= 0
RECURSIVE IntToStr(_)
IntToStr(n) ==
    IF n < 10 THEN CharAt(Digits, n)
    ELSE IntToStr(n \div 10) \o CharAt(Digits, n % 10)

\* repeatable_keys: the keys whose normalized name is a completion date
RepeatableName(norm) ==
    Contains(norm, "data completarii") \/ Contains(norm, "data completare")

IsRepeatable(key) == RepeatableName(validate_normalize_text(key))

\* _llm_choose_key: the key the model answers with, when it is one of the
\* candidate keys; llm is "no_model", "None" or the key the model answers
llm_choose_key(llm, cand_keys) ==
    IF llm \in {"no_model", "None"} THEN "None"
    ELSE IF \E i \in 1..Len(cand_keys) : cand_keys[i] = llm THEN llm
    ELSE "None"

\* the penalty of a key already used by a span of another context
PenalizedScore(score, span, key, used_keys, reused) ==
    score
    - (IF reused THEN Hundredths(25) ELSE 0)
    - (IF /\ reused
          /\ used_keys[key] # {}
          /\ jaccard(tokens(SpanContext(span)), used_keys[key]) * 10 < 3 * ScoreUnit
       THEN Hundredths(25) ELSE 0)

\* a candidate that passes the gates replaces the best one when it scores higher
NextBest(best, span, key, value, score, expected_type) ==
    IF IsListOrDict(value) THEN best
    ELSE IF ~type_check(expected_type, value, span)
         THEN [best EXCEPT !.prevented = Append(@, <<span.span_id, key>>)]
    ELSE IF score > best.score THEN [best EXCEPT !.key = key, !.score = score]
    ELSE best

CandidateStep(best, span, cand, expected_type, data_norm, used_keys) ==
    NextBest(best, span, cand.key, data_norm[cand.key],
             PenalizedScore(cand.score, span, cand.key, used_keys,
                            cand.key \in DOMAIN used_keys /\ ~IsRepeatable(cand.key)),
             expected_type)

\* the candidate loop of one span: the best key and score after the
\* candidates from index i on, and the mismatches recorded
RECURSIVE BestCandidate(_, _, _, _, _, _, _)
BestCandidate(cand_list, i, best, span, expected_type, data_norm, used_keys) ==
    IF i > Len(cand_list) THEN best
    ELSE BestCandidate(cand_list, i + 1,
                       CandidateStep(best, span, cand_list[i], expected_type,
                                     data_norm, used_keys),
                       span, expected_type, data_norm, used_keys)

\* (top1 - top2) < 0.08
Ambiguous(cand_list) ==
    ((IF Len(cand_list) > 0 THEN cand_list[1].score ELSE 0)
     - (IF Len(cand_list) > 1 THEN cand_list[2].score ELSE 0)) * 100 < 8 * ScoreUnit

KeysOf(cand_list) == [i \in 1..Len(cand_list) |-> cand_list[i].key]

\* the model's pick replaces the best key when the candidates are ambiguous
\* and the pick passes the gates
ChosenKey(best_key, pick, cand_list, span, expected_type, data_norm, llm) ==
    IF /\ Ambiguous(cand_list) /\ llm # "no_model" /\ pick # "None"
       /\ ~IsListOrDict(data_norm[pick])
       /\ type_check(expected_type, data_norm[pick], span)
    THEN pick ELSE best_key

\* mapping[span_id] = best_key, and the key is marked as used
AssignKey(st, span, best_key, prevented) ==
    [st EXCEPT !.mapping = (span.span_id :> best_key) @@ @,
               !.type_mismatch_prevented = prevented,
               !.used_keys = IF IsRepeatable(best_key) THEN @
                             ELSE (best_key :> tokens(SpanContext(span))) @@ @]

AssignBest(st, span, cand_list, best, expected_type, data_norm, llm) ==
    IF Len(cand_list) = 0
    THEN [st EXCEPT !.mapping = (span.span_id :> "None") @@ @]
    ELSE IF best.key = "None"
    THEN [st EXCEPT !.mapping = (span.span_id :> "None") @@ @,
                    !.type_mismatch_prevented = @ \o best.prevented]
    ELSE AssignKey(st, span,
                   ChosenKey(best.key, llm_choose_key(llm, KeysOf(cand_list)), cand_list,
                             span, expected_type, data_norm, llm),
                   st.type_mismatch_prevented \o best.prevented)

\* one round of the assignment loop
AssignSpan(st, span, cand_list, expected_type, data_norm, llm) ==
    AssignBest(st, span, cand_list,
               BestCandidate(cand_list, 1,
                             [key |-> "None", score |-> -ScoreUnit, prevented |-> <<>>],
                             span, expected_type, data_norm, st.used_keys),
               expected_type, data_norm, llm)

RECURSIVE AssignLoop(_, _, _, _, _, _, _)
AssignLoop(st, order, spans, candidates, expected_types, data_norm, llm) ==
    IF Len(order) = 0 THEN st
    ELSE LET span == spans[Head(order)]
         IN  AssignLoop(AssignSpan(st, span, candidates[Head(order)],
                                   expected_types[span.span_id], data_norm, llm),
                        Tail(order), spans, candidates, expected_types, data_norm, llm)

\* the keys of the data record that name a completion date and hold a date
CompletionKeys(data_keys, data_norm) ==
    SelectSeq(data_keys, LAMBDA key : IsRepeatable(key) /\ parse_date(data_norm[key]) >= 0)

FirstCompletion(completion, data_norm) ==
    IF Len(completion) = 0 THEN -1 ELSE parse_date(data_norm[completion[1]])

DateUntil(date_key, data_norm) ==
    IF date_key \in {"None", "__computed__"} THEN -1 ELSE parse_date(data_norm[date_key])

SetDuration(st, sid_duration, date_until, data_completarii) ==
    IF date_until >= 0 /\ data_completarii >= 0 /\ date_until - data_completarii >= 0
    THEN [st EXCEPT !.mapping = (sid_duration :> "__computed__") @@ @,
                    !.computed_values =
                        (sid_duration :> StrVal(IntToStr(date_until - data_completarii))) @@ @]
    ELSE st

DurationOf(st, group_sorted, expected_types, data_keys, data_norm) ==
    IF \/ Len(group_sorted) < 2
       \/ ~Contains(validate_normalize_text(group_sorted[1].paragraph_text), "durata de")
    THEN st
    ELSE IF expected_types[group_sorted[1].span_id] \notin {"DURATION_DAYS", "NUMBER"} THEN st
    ELSE IF GetName(st.mapping, group_sorted[1].span_id) # "None" THEN st
    ELSE SetDuration(st, group_sorted[1].span_id,
                     DateUntil(GetName(st.mapping, group_sorted[2].span_id), data_norm),
                     FirstCompletion(CompletionKeys(data_keys, data_norm), data_norm))

\* the second pass on one paragraph: the duration span gets the computed
\* number of days when it has no key
ComputeDuration(st, group, expected_types, data_keys, data_norm) ==
    DurationOf(st, SortByStartAsc(group), expected_types, data_keys, data_norm)

RECURSIVE ComputeLoop(_, _, _, _, _, _)
ComputeLoop(st, para_keys, spans, expected_types, data_keys, data_norm) ==
    IF para_keys = {} THEN st
    ELSE LET k == CHOOSE x \in para_keys : TRUE
         IN  ComputeLoop(ComputeDuration(st, ParaGroup(spans, k), expected_types,
                                         data_keys, data_norm),
                         para_keys \ {k}, spans, expected_types, data_keys, data_norm)

\* the fuzzy matches stand in for an empty list of heuristic candidates
OrFuzzy(heuristic, data_keys, ratio) ==
    IF Len(heuristic) = 0 THEN fuzzy_candidates(data_keys, ratio) ELSE heuristic

\* the first pass: the candidates of the spans from index i on
RECURSIVE CandidatesFrom(_, _, _, _, _)
CandidatesFrom(spans, i, data_keys, data_norm, ratio) ==
    IF i > Len(spans) THEN <<>>
    ELSE <<OrFuzzy(candidate_scores(spans[i], data_keys, data_norm, ratio[i]),
                   data_keys, ratio[i])>>
         \o CandidatesFrom(spans, i + 1, data_keys, data_norm, ratio)

\* top1 - top2 of every candidate list
RECURSIVE GapsOf(_)
GapsOf(candidates) ==
    IF Len(candidates) = 0 THEN <<>>
    ELSE LET c == Head(candidates)
         IN  <<(IF Len(c) > 0 THEN c[1].score ELSE 0) - (IF Len(c) > 1 THEN c[2].score ELSE 0)>>
             \o GapsOf(Tail(candidates))

\* span_order: the spans by descending gap, equal gaps in the order of their ids
SpanOrder(sorted_idx, gaps) ==
    LET OrderPos(p) == Cardinality({q \in 1..Len(sorted_idx) :
                           \/ gaps[sorted_idx[q]] > gaps[sorted_idx[p]]
                           \/ gaps[sorted_idx[q]] = gaps[sorted_idx[p]] /\ q < p}) + 1
    IN  [n \in 1..Len(sorted_idx) |->
            sorted_idx[CHOOSE p \in 1..Len(sorted_idx) : OrderPos(p) = n]]

MapResult(final, candidates, expected_types, span_order) ==
    [mapping |-> final.mapping,
     candidates |-> candidates,
     computed_values |-> final.computed_values,
     expected_types |-> expected_types,
     type_mismatch_prevented |-> final.type_mismatch_prevented,
     span_order |-> span_order]

\* the assignment loop, then the second pass
MapOrdered(spans, data_keys, data_norm, llm, candidates, expected_types, span_order) ==
    MapResult(ComputeLoop(AssignLoop([mapping |-> <<>>, used_keys |-> <<>>,
                                      computed_values |-> <<>>,
                                      type_mismatch_prevented |-> <<>>],
                                     span_order, spans, candidates, expected_types,
                                     data_norm, llm),
                          {ParaKey(spans[i]) : i \in 1..Len(spans)},
                          spans, expected_types, data_keys, data_norm),
              candidates, expected_types, span_order)

MapCandidates(spans, data_keys, data_norm, llm, id_order, candidates, expected_types) ==
    MapOrdered(spans, data_keys, data_norm, llm, candidates, expected_types,
               SpanOrder(SelectSeq(id_order, LAMBDA i : spans[i].blank_kind # "checkbox"),
                         GapsOf(candidates)))

\* map_field_spans(spans, data_norm, model): data_keys is the record's key
\* order, id_order the spans' indexes in ascending order of their span_id
\* hashes, ratio[i][key] the fuzzy ratio of span i's context and the key
map_field_spans(spans, data_keys, data_norm, llm, id_order, ratio) ==
    MapCandidates(spans, data_keys, data_norm, llm, id_order,
                  CandidatesFrom(spans, 1, data_keys, data_norm, ratio),
                  expected_types_of(spans))

-----------------------------------------------------------------------------
(* docx_io/anchors.py, on templates of body paragraphs that hold no        *)
(* checkbox marks and no tables.                                           *)

\* PLACEHOLDER_UNDERSCORES = _{4,} and PLACEHOLDER_DOTS = \.{4,}
MinPlaceholder == 4

\* the characters of nearby_text before and after the placeholder
NearbyWindow == 100

\* nearby[:200]
NearbyLimit == 200

\* two underscore runs with one slash between them
SlashJoined(text, a, b) == b.start = a.end + 1 /\ CharAt(text, a.end) = "/"

\* finditer of PLACEHOLDER_DATE = _{4,}/_{4,}/_{4,} over the underscore runs
\* in text order: leftmost matches that do not overlap
RECURSIVE DateMatches(_, _)
DateMatches(text, us) ==
    IF Len(us) < 3 THEN {}
    ELSE IF SlashJoined(text, us[1], us[2]) /\ SlashJoined(text, us[2], us[3])
         THEN {[start |-> us[1].start, end |-> us[3].end]}
              \cup DateMatches(text, SubSeq(us, 4, Len(us)))
         ELSE DateMatches(text, Tail(us))

\* as PlaceholderSpans, the underscore and dot runs taken without looking at
\* the reserved offsets
PlaceholderSpans_Unreserved(text, dates) ==
    SortedByStart(
        dates \cup BlankRuns(text, "_", MinPlaceholder) \cup BlankRuns(text, ".", MinPlaceholder))

\* the date placeholders first, then the underscore and dot runs that touch
\* no reserved offset; sorted by start
PlaceholderSpans(text, dates) ==
    SortedByStart(
        dates
        \cup {m \in BlankRuns(text, "_", MinPlaceholder) \cup BlankRuns(text, ".", MinPlaceholder) :
                ~\E d \in dates : m.start < d.end /\ d.start < m.end})

\* _find_placeholder_spans(text)
find_placeholder_spans(text) ==
    PlaceholderSpans(text, DateMatches(text, SortedByStart(BlankRuns(text, "_", MinPlaceholder))))

\* s.strip(chars)
RECURSIVE StripOf(_, _)
StripOf(s, chars) ==
    IF Len(s) > 0 /\ CharAt(s, 0) \in chars THEN StripOf(SliceFrom(s, 1), chars)
    ELSE IF Len(s) > 0 /\ CharAt(s, Len(s) - 1) \in chars
         THEN StripOf(Slice(s, 0, Len(s) - 1), chars)
    ELSE s

\* s.splitlines() of a text whose only line boundary is "\n": a final line
\* break opens no further line
DropLastEmpty(parts) ==
    IF parts[Len(parts)] = "" THEN SubSeq(parts, 1, Len(parts) - 1) ELSE parts

SplitLines(s) == DropLastEmpty(Split(s, "\n"))

LastLine(lines) ==
    IF Len(lines) = 0 THEN "" ELSE StripOf(lines[Len(lines)], {" ", ":", "\t"})

\* _extract_label_from_text(text, start)
extract_label_from_text(text, start) == LastLine(SplitLines(Slice(text, 0, start)))

\* the label of a placeholder of a body paragraph: the text before it on its
\* line, or the previous paragraph when that holds a note in parentheses
PrevOr(label, prev_text) ==
    IF label = "" /\ prev_text # "" /\ Contains(prev_text, "(") /\ Contains(prev_text, ")")
    THEN Strip(prev_text) ELSE label

AnchorLabel(text, start, prev_text) == PrevOr(extract_label_from_text(text, start), prev_text)

\* the anchor extract_anchors appends for a placeholder; cluster_id and
\* role_pattern are set by _assign_cluster
AnchorRecord(n, label, text, m, p_idx) ==
    [anchor_id |-> "A" \o IntToStr(n),
     label_text |-> label,
     nearby_text |-> Slice(Slice(text, Max(0, m.start - NearbyWindow),
                                 Min(Len(text), m.end + NearbyWindow)),
                           0, NearbyLimit),
     placeholder |-> Slice(text, m.start, m.end),
     paragraph_idx |-> p_idx,
     kind |-> "text",
     cluster_id |-> 0,
     role_pattern |-> "None"]

\* a placeholder with no label gives no anchor
AddAnchor(anchors, text, p_idx, m, label) ==
    IF label = "" THEN anchors
    ELSE Append(anchors, AnchorRecord(Len(anchors) + 1, label, text, m, p_idx))

RECURSIVE SpanAnchors(_, _, _, _, _)
SpanAnchors(anchors, text, p_idx, spans, prev_text) ==
    IF Len(spans) = 0 THEN anchors
    ELSE SpanAnchors(AddAnchor(anchors, text, p_idx, Head(spans),
                               AnchorLabel(text, Head(spans).start, prev_text)),
                     text, p_idx, Tail(spans), prev_text)

\* the loop of extract_anchors over the containers; prev_text is "" for None
RECURSIVE AnchorsFrom(_, _, _, _)
AnchorsFrom(anchors, doc, p_idx, prev_text) ==
    IF p_idx >= Len(doc) THEN anchors
    ELSE IF doc[p_idx + 1] = "" THEN AnchorsFrom(anchors, doc, p_idx + 1, "")
    ELSE AnchorsFrom(SpanAnchors(anchors, doc[p_idx + 1], p_idx,
                                 find_placeholder_spans(doc[p_idx + 1]), prev_text),
                     doc, p_idx + 1, doc[p_idx + 1])

\* location.get("paragraph_idx") or -1
ParagraphKey(a) == IF a.paragraph_idx = 0 THEN -1 ELSE a.paragraph_idx

\* the members of S in ascending order of (sign * score[x], x)
RECURSIVE OrderBy(_, _, _)
OrderBy(S, score, sign) ==
    IF S = {} THEN <<>>
    ELSE LET m == CHOOSE x \in S : \A y \in S :
                      \/ sign * score[x] < sign * score[y]
                      \/ sign * score[x] = sign * score[y] /\ (x = y \/ StrLess(x, y))
         IN  <<m>> \o OrderBy(S \ {m}, score, sign)

\* items.sort(key=paragraph_idx or -1): a stable sort of the anchors
RECURSIVE SortByParagraph(_)
SortByParagraph(items) ==
    IF Len(items) = 0 THEN <<>>
    ELSE LET i == CHOOSE x \in 1..Len(items) :
                     /\ \A y \in 1..Len(items) : ParagraphKey(items[x]) <= ParagraphKey(items[y])
                     /\ \A y \in 1..(x - 1) : ParagraphKey(items[y]) > ParagraphKey(items[x])
         IN  <<items[i]>>
             \o SortByParagraph(SubSeq(items, 1, i - 1) \o SubSeq(items, i + 1, Len(items)))

\* the cluster of every sorted item: an item opens a cluster when its
\* paragraph lies more than two after the item before it
RECURSIVE ClusterIds(_, _, _)
ClusterIds(items, i, cid) ==
    IF i > Len(items) THEN <<>>
    ELSE IF i = 1 \/ items[i].paragraph_idx - items[i - 1].paragraph_idx <= 2
         THEN <<cid>> \o ClusterIds(items, i + 1, cid)
         ELSE <<cid + 1>> \o ClusterIds(items, i + 1, cid + 1)

\* the characters of string.punctuation but the backquote, which no input holds
Punctuation == "!\"#$%&'()*+,-./:;<=>?@[\\]^_{|}~"

\* text.translate of a table that sends every character of the set to a space
RECURSIVE SpaceChars(_, _)
SpaceChars(s, chars) ==
    IF Len(s) <= 1 THEN (IF s \in chars THEN " " ELSE s)
    ELSE SpaceChars(Slice(s, 0, Len(s) \div 2), chars)
         \o SpaceChars(SliceFrom(s, Len(s) \div 2), chars)

\* _normalize_role_text(value): punctuation other than % becomes a space
normalize_role_text(value) ==
    JoinWith(SplitWs(SpaceChars(Lower(value), CharsOf(Punctuation) \ {"%"})), " ")

\* re.search of t1.*t2.*...tn with DOTALL, from offset from on
RECURSIVE InOrder(_, _, _)
InOrder(s, toks, from) ==
    IF Len(toks) = 0 THEN TRUE
    ELSE LET p == FindFrom(s, Head(toks), from)
         IN  p # -1 /\ InOrder(s, Tail(toks), p + Len(Head(toks)))

\* the role pattern _assign_cluster reads off the normalized context
RolePattern(norm) ==
    IF InOrder(norm, <<"subsemnatul", "reprezentant", "al">>, 0) THEN "PERSON_THEN_ORG"
    ELSE IF InOrder(norm, <<"parafat", "banca", "ziua", "luna", "anul">>, 0)
         THEN "ORG_THEN_DATE"
    ELSE IF \E t \in {"ofertant", "tert", "operator"} : InOrder(norm, <<"(denumirea", t>>, 0)
         THEN "ORG_ONLY"
    ELSE IF Slice(norm, 0, 5) = "catre" THEN "CATRE_HEADER"
    ELSE IF \E t \in {"suma", "penalitati", "reprezentand"} : InOrder(norm, <<t, "%">>, 0)
         THEN "MONEY_PERCENT"
    ELSE "None"

\* the nearby texts of the items of cluster cid
RECURSIVE NearbyOf(_, _, _, _)
NearbyOf(items, cids, i, cid) ==
    IF i > Len(items) THEN <<>>
    ELSE (IF cids[i] = cid THEN <<items[i].nearby_text>> ELSE <<>>)
         \o NearbyOf(items, cids, i + 1, cid)

\* _assign_cluster(items, cluster_id): the role pattern of the cluster
assign_cluster(items, cids, cid) ==
    RolePattern(normalize_role_text(Lower(Strip(JoinWith(NearbyOf(items, cids, 1, cid), " ")))))

\* every sorted item with its cluster and the cluster's role pattern
RECURSIVE AssignFrom(_, _, _)
AssignFrom(items, cids, i) ==
    IF i > Len(items) THEN <<>>
    ELSE <<[items[i] EXCEPT !.cluster_id = cids[i],
                            !.role_pattern = assign_cluster(items, cids, cids[i])]>>
         \o AssignFrom(items, cids, i + 1)

AssignClusters(items) == AssignFrom(items, ClusterIds(items, 1, 1), 1)

\* the anchors in the order extraction found them, as the clustering left them
RECURSIVE InFoundOrder(_, _)
InFoundOrder(assigned, n) ==
    IF n > Len(assigned) THEN <<>>
    ELSE <<CHOOSE a \in Range(assigned) : a.anchor_id = "A" \o IntToStr(n)>>
         \o InFoundOrder(assigned, n + 1)

\* extract_anchors(containers, doc): the anchors of the template
extract_anchors(doc) ==
    InFoundOrder(AssignClusters(SortByParagraph(AnchorsFrom(<<>>, doc, 0, ""))), 1)

-----------------------------------------------------------------------------
(* docx_io/anchors.py: the loop of extract_anchors over containers that    *)
(* may hold checkbox marks.  A container is a body paragraph, known by its *)
(* index; the loop's locals are the fields of a record.                    *)

\* _line_spans(text): (start, end, line) of every line, "\n" the only line
\* boundary
RECURSIVE LineSpansFrom(_, _, _)
LineSpansFrom(lines, i, cursor) ==
    IF i > Len(lines) THEN <<>>
    ELSE <<[start |-> cursor, line |-> lines[i]]>>
         \o LineSpansFrom(lines, i + 1, cursor + Len(lines[i]) + 1)

line_spans(text) ==
    IF text = "" THEN <<[start |-> 0, line |-> ""]>>
    ELSE LineSpansFrom(SplitLines(text), 1, 0)

\* _find_checkbox_spans(line): the "|_|" marks first, then the bracket marks
find_checkbox_spans(line) ==
    SortedByStart({m \in CheckboxMatches(line, 0) : Slice(line, m.start, m.end) = "|_|"})
    \o SortedByStart({m \in CheckboxMatches(line, 0) : Slice(line, m.start, m.end) # "|_|"})

\* s.replace(old, ""), left to right, without overlap
RECURSIVE Remove(_, _)
Remove(s, old) ==
    IF FindFrom(s, old, 0) = -1 THEN s
    ELSE Slice(s, 0, FindFrom(s, old, 0)) \o Remove(SliceFrom(s, FindFrom(s, old, 0) + Len(old)), old)

\* the text of an option: its line without the marks
option_text(line) == Strip(Remove(Remove(Remove(Remove(line, "|_|"), "[ ]"), "[x]"), "[X]"))

\* one option for every mark of a line
LineOptions(ln, spans, container) ==
    [i \in 1..Len(spans) |->
        [text |-> option_text(ln.line),
         span |-> [start |-> ln.start + spans[i].start, end |-> ln.start + spans[i].end],
         container |-> container]]

\* the options of the lines of a container that hold a mark
RECURSIVE ContainerOptions(_, _, _)
ContainerOptions(lns, i, container) ==
    IF i > Len(lns) THEN <<>>
    ELSE LineOptions(lns[i], find_checkbox_spans(lns[i].line), container)
         \o ContainerOptions(lns, i + 1, container)

\* the locals of extract_anchors before the first container; prev_text is
\* "" for None and checkbox_group_location -1 for None
LoopStart ==
    [anchors |-> <<>>, anchor_id |-> 1, prev_text |-> "", checkbox_group |-> <<>>,
     checkbox_group_text |-> <<>>, checkbox_group_location |-> -1, checkbox_gap |-> 0]

\* the anchor _flush_checkbox_group appends; cluster_id and role_pattern are
\* set by _assign_cluster
GroupAnchor(ls) ==
    [anchor_id |-> "A" \o IntToStr(ls.anchor_id),
     label_text |-> Strip(JoinWith(ls.checkbox_group_text, "\n")),
     nearby_text |-> Slice(Strip(JoinWith(ls.checkbox_group_text, "\n")), 0, NearbyLimit),
     placeholder |-> "None",
     paragraph_idx |-> ls.checkbox_group_location,
     kind |-> "checkbox_group",
     options |-> ls.checkbox_group,
     container |-> ls.checkbox_group[1].container,
     cluster_id |-> 0,
     role_pattern |-> "None"]

\* _flush_checkbox_group()
flush_checkbox_group(ls) ==
    IF ls.checkbox_group = <<>> THEN ls
    ELSE [ls EXCEPT !.anchors = Append(@, GroupAnchor(ls)),
                    !.anchor_id = @ + 1,
                    !.checkbox_group = <<>>,
                    !.checkbox_group_text = <<>>,
                    !.checkbox_group_location = -1]

\* as GapCounted, the group closed by the first container without a mark
GapCounted_NoTolerance(ls) ==
    IF ls.checkbox_group # <<>>
    THEN [flush_checkbox_group(ls) EXCEPT !.checkbox_gap = 0]
    ELSE [ls EXCEPT !.checkbox_gap = 0]

\* a container with text and no mark: the gap of an open group grows, and
\* the group is flushed when the gap passes one
GapCounted(ls) ==
    IF ls.checkbox_group # <<>>
    THEN IF ls.checkbox_gap + 1 > 1
         THEN [flush_checkbox_group(ls) EXCEPT !.checkbox_gap = 0]
         ELSE [ls EXCEPT !.checkbox_gap = @ + 1]
    ELSE [ls EXCEPT !.checkbox_gap = 0]

\* a container that holds a mark joins the open group, or opens one
CheckboxContainer(ls, text, p_idx) ==
    [ls EXCEPT !.checkbox_group_location = IF ls.checkbox_group = <<>> THEN p_idx ELSE @,
               !.checkbox_group_text = Append(@, Strip(text)),
               !.checkbox_gap = 0,
               !.checkbox_group = @ \o ContainerOptions(line_spans(text), 1, p_idx),
               !.prev_text = text]

\* the placeholders of a container with no mark become anchors
PlaceholderContainer(ls, text, p_idx, prev_text) ==
    [ls EXCEPT !.anchors = SpanAnchors(@, text, p_idx, find_placeholder_spans(text), prev_text),
               !.anchor_id = 1 + Len(SpanAnchors(ls.anchors, text, p_idx,
                                                 find_placeholder_spans(text), prev_text)),
               !.prev_text = text]

\* the body of the loop of extract_anchors for one container
ContainerStep(ls, text, p_idx) ==
    IF text = "" THEN [ls EXCEPT !.prev_text = ""]
    ELSE IF CheckboxMatches(text, 0) # {} THEN CheckboxContainer(ls, text, p_idx)
    ELSE PlaceholderContainer(GapCounted(ls), text, p_idx, ls.prev_text)

\* the loop from container p_idx on, and the flush that follows it
RECURSIVE ContainerLoop(_, _, _)
ContainerLoop(ls, texts, p_idx) ==
    IF p_idx >= Len(texts) THEN flush_checkbox_group(ls)
    ELSE ContainerLoop(ContainerStep(ls, texts[p_idx + 1], p_idx), texts, p_idx + 1)

-----------------------------------------------------------------------------
(* llm/map_fields.py.  Scores are held exactly, in units of 1/ScoreUnit;   *)
(* the token_set_ratio of an anchor's query and a key, and the candidates  *)
(* the language model suggests, are inputs.                                *)

\* _normalize_text(value) of map_fields.py: lower case, punctuation deleted,
\* then " ".join(text.split())
normalize_text(value) ==
    JoinWith(SplitWs(DropChars(Lower(value), CharsOf(Punctuation))), " ")

\* the chain of substring tests of _infer_field_type
FieldTypeOf(anchor, text) ==
    IF \/ anchor.kind \in {"checkbox", "checkbox_group"}
       \/ Contains(anchor.label_text, "|_|") \/ Contains(anchor.label_text, "[ ]")
    THEN "CHECKBOX_GROUP"
    ELSE IF ContainsAny(text, {"tabel", "lista"}) THEN "TABLE"
    ELSE IF ContainsAny(text, {"ziua", "luna", "anul"}) THEN "DATE_PARTS"
    ELSE IF Contains(anchor.placeholder, "/") \/ Contains(text, "data") THEN "DATE"
    ELSE IF Contains(anchor.label_text, "%") \/ Contains(text, "procent") THEN "PERCENT"
    ELSE IF ContainsAny(text, {"suma", "lei", "valoare", "tva", "taxa"}) THEN "MONEY"
    ELSE IF ContainsAny(text, {"adresa", "sediu", "domiciliu"}) THEN "ORG_ADDRESS"
    ELSE IF ContainsAny(text, {"domiciliat", "cnp", "bi", "ci"}) THEN "PERSON_ADDRESS"
    ELSE IF ContainsAny(text, {"subsemnat", "reprezentant", "imputernicit", "semnatar",
                               "dl", "dna", "functie"})
         THEN "PERSON_NAME"
    ELSE IF ContainsAny(text, {"operator economic", "ofertant", "s.c", "societate"})
         THEN "ORG_NAME"
    ELSE IF ContainsAny(text, {"banca", "autoritate", "achizitor", "contractant",
                               "beneficiar"})
         THEN "ORG_NAME"
    ELSE IF Contains(text, "cpv") THEN "NUMBER"
    ELSE IF ContainsAny(text, {"numar", "nr", "cif", "cnp", "cod", "serie", "bi", "ci"})
         THEN "NUMBER"
    ELSE "TEXT"

\* the label alone when its normalized text has five characters or more,
\* the label and the nearby text otherwise
FieldText(anchor, norm_label) ==
    IF Len(norm_label) >= 5 THEN norm_label
    ELSE normalize_text(anchor.label_text \o " " \o anchor.nearby_text)

\* _infer_field_type(anchor)
infer_field_type(anchor) ==
    FieldTypeOf(anchor, FieldText(anchor, normalize_text(anchor.label_text)))

\* the chain of substring tests of _infer_key_type on t = _normalize_text(key)
KeyTypeOf(key, t) ==
    IF ContainsAny(t, {"tabel", "lista"}) THEN "TABLE"
    ELSE IF ContainsAny(t, {"zi", "luna", "an"}) /\ Contains(t, "data") THEN "DATE_PARTS"
    ELSE IF Contains(t, "data") THEN "DATE"
    ELSE IF ContainsAny(t, {"tva", "suma", "valoare", "lei"}) THEN "MONEY"
    ELSE IF Contains(key, "%") \/ Contains(t, "procent") THEN "PERCENT"
    ELSE IF Contains(t, "cpv") THEN "NUMBER"
    ELSE IF ContainsAny(t, {"numar", "nr", "cif", "cnp", "cod", "serie", "bi", "ci"})
         THEN "NUMBER"
    ELSE IF ContainsAny(t, {"adresa", "sediu", "domiciliu"}) THEN "ORG_ADDRESS"
    ELSE IF ContainsAny(t, {"domiciliat", "cnp", "bi", "ci"}) THEN "PERSON_ADDRESS"
    ELSE IF /\ ContainsAny(t, {"operator", "ofertant", "autoritate", "societate",
                               "achizitor", "s.c", "contractant", "beneficiar", "banca",
                               "asigur"})
            /\ ContainsAny(t, {"denumire", "nume"})
         THEN "ORG_NAME"
    ELSE IF ContainsAny(t, {"reprezentant", "imputernicit", "semnatar", "nume", "functie",
                            "director"})
         THEN "PERSON_NAME"
    ELSE IF ContainsAny(t, {"operator", "ofertant", "autoritate", "societate", "achizitor",
                            "s.c"})
         THEN "ORG_NAME"
    ELSE "TEXT"

\* _infer_key_type(key)
infer_key_type(key) == KeyTypeOf(key, normalize_text(key))

\* _type_compatible(field_type, key_type)
type_compatible(field_type, key_type) ==
    CASE field_type = "TABLE" -> key_type = "TABLE"
      [] field_type = "CHECKBOX_GROUP" -> TRUE
      [] field_type = "DATE" -> key_type = "DATE"
      [] field_type = "DATE_PARTS" -> key_type \in {"DATE", "DATE_PARTS"}
      [] field_type = "MONEY" -> key_type \in {"MONEY", "NUMBER"}
      [] field_type = "PERCENT" -> key_type \in {"PERCENT", "NUMBER"}
      [] field_type = "NUMBER" -> key_type \in {"NUMBER", "MONEY", "PERCENT"}
      [] field_type = "PERSON_NAME" -> key_type = "PERSON_NAME"
      [] field_type = "PERSON_ADDRESS" -> key_type = "PERSON_ADDRESS"
      [] field_type = "ORG_NAME" -> key_type = "ORG_NAME"
      [] field_type = "ORG_ADDRESS" -> key_type = "ORG_ADDRESS"
      [] OTHER -> TRUE

\* set(_normalize_text(value).split())
TokenSet(value) == Range(SplitWs(normalize_text(value)))

\* the share of the key's tokens found in the label or the nearby text
OverlapScore(toks, key_tokens) ==
    IF toks = {} \/ key_tokens = {} THEN 0
    ELSE Min(ScoreUnit,
             (Cardinality(toks \cap key_tokens) * ScoreUnit) \div Max(1, Cardinality(key_tokens)))

\* _context_score(label, nearby, key), the definition in force (the second
\* of the module), in score units
context_score(label, nearby, key) ==
    OverlapScore(TokenSet(label) \cup TokenSet(nearby), TokenSet(key))

\* a run of exactly n digits at offset i
DigitsAt(s, i, n) == i + n <= Len(s) /\ \A j \in i..(i + n - 1) : IsDigit(CharAt(s, j))

\* \b before offset i and after offset j of a match that starts and ends
\* with a digit
WordBounded(s, i, j) ==
    /\ i = 0 \/ ~IsWordChar(CharAt(s, i - 1))
    /\ j = Len(s) \/ ~IsWordChar(CharAt(s, j))

\* \b\d{4}-\d{2}-\d{2}\b at offset i
YMDAt(s, i) ==
    /\ DigitsAt(s, i, 4) /\ CharAt(s, i + 4) = "-"
    /\ DigitsAt(s, i + 5, 2) /\ CharAt(s, i + 7) = "-"
    /\ DigitsAt(s, i + 8, 2)
    /\ WordBounded(s, i, i + 10)

\* \b\d{1,2}/\d{1,2}/\d{4}\b at offset i
DMYAt(s, i) ==
    \E a \in 1..2, b \in 1..2 :
        /\ DigitsAt(s, i, a) /\ CharAt(s, i + a) = "/"
        /\ DigitsAt(s, i + a + 1, b) /\ CharAt(s, i + a + b + 1) = "/"
        /\ DigitsAt(s, i + a + b + 2, 4)
        /\ WordBounded(s, i, i + a + b + 6)

\* re.search of the date pattern of _hard_gate
HasDateText(s) == \E i \in 0..(Len(s) - 1) : YMDAt(s, i) \/ DMYAt(s, i)

\* the tests of _hard_gate that follow the list and dict test
GateOf(field_type, norm_key, value) ==
    IF field_type \in {"DATE", "DATE_PARTS"}
    THEN Slice(norm_key, 0, 4) = "data" \/ (IsStr(value) /\ HasDateText(value.s))
    ELSE IF field_type = "PERCENT"
    THEN \/ IsStr(value) /\ Contains(value.s, "%")
         \/ IsNum(value)
         \/ /\ IsStr(value)
            /\ IsDigitStr(DropChars(Strip(value.s), {"."}))
            /\ Len(Strip(value.s)) <= 6
    ELSE IF field_type = "NUMBER"
    THEN \/ IsNum(value)
         \/ /\ IsStr(value)
            /\ IsDigitStr(DropChars(Strip(value.s), {"/", "-"}))
            /\ Len(Strip(value.s)) <= 12
    ELSE IF /\ field_type = "ORG_NAME"
            /\ ContainsAny(norm_key, {"imputernicit", "subsemnat", "reprezentant"})
    THEN FALSE
    ELSE IF /\ field_type = "ORG_NAME"
            /\ ContainsAny(norm_key, {"ofertant", "operator economic", "contractant"})
    THEN TRUE
    ELSE IF /\ field_type = "PERSON_NAME"
            /\ ContainsAny(norm_key, {"imputernicit", "subsemnat", "reprezentant", "semnatar"})
    THEN TRUE
    ELSE IF /\ field_type = "PERSON_NAME"
            /\ ContainsAny(norm_key, {"ofertant", "operator economic", "contractant"})
    THEN FALSE
    ELSE TRUE

\* _hard_gate(field_type, label, key, value)
hard_gate(field_type, label, key, value) ==
    IF IsListOrDict(value) THEN field_type = "TABLE"
    ELSE GateOf(field_type, normalize_text(key), value)

\* d.get(k, []) of a dict of lists
GetList(d, k) == IF k \in DOMAIN d THEN d[k] ELSE <<>>

\* the weights of a candidate's total, in hundredths
TextWeight == 45

LlmWeight == 25

TypeWeight == 20

ContextWeight == 10

\* one entry of cand_list; the scores are in score units
Candidate(key, field_type, score_text, score_llm, score_type, score_context) ==
    [key |-> key,
     score_text |-> score_text,
     score_llm |-> score_llm,
     score_type |-> score_type,
     score_context |-> score_context,
     total |-> (TextWeight * score_text + LlmWeight * score_llm
                + TypeWeight * score_type + ContextWeight * score_context) \div 100,
     field_type |-> field_type]

\* llm_map.get(key): the confidence of the last suggestion that names the
\* key, or -1 when none does
LlmScore(llm_list, key) ==
    IF \E i \in 1..Len(llm_list) : llm_list[i].key = key
    THEN llm_list[CHOOSE i \in 1..Len(llm_list) :
                      /\ llm_list[i].key = key
                      /\ \A j \in (i + 1)..Len(llm_list) : llm_list[j].key # key].confidence
    ELSE -1

\* score_text and score_llm of a key of merged: a key rapidfuzz returned has
\* its ratio and the model's confidence or 0.0, a key only the model named 0.0
\* and the confidence
MergedCandidate(anchor, field_type, key, in_base, ratio, llm_score) ==
    Candidate(key, field_type,
              IF in_base THEN Hundredths(ratio[key]) ELSE 0,
              Hundredths(Max(0, llm_score)),
              IF type_compatible(field_type, infer_key_type(key)) THEN ScoreUnit ELSE 0,
              context_score(anchor.label_text, anchor.nearby_text, key))

\* cand_list.sort(key=(-total, key))
SortByTotal(c) ==
    LET Before(i, j) ==
            \/ c[i].total > c[j].total
            \/ c[i].total = c[j].total /\ StrLess(c[i].key, c[j].key)
        Pos(i) == Cardinality({j \in 1..Len(c) : Before(j, i)}) + 1
    IN  [p \in 1..Len(c) |-> c[CHOOSE i \in 1..Len(c) : Pos(i) = p]]

\* the candidates of the keys of merged that pass the hard gate
RECURSIVE GatedFrom(_, _, _, _, _, _, _)
GatedFrom(anchor, field_type, keys, base_keys, data_norm, ratio, llm_list) ==
    IF Len(keys) = 0 THEN <<>>
    ELSE (IF hard_gate(field_type, anchor.label_text, Head(keys), Get(data_norm, Head(keys)))
          THEN <<MergedCandidate(anchor, field_type, Head(keys), Head(keys) \in base_keys,
                                 ratio, LlmScore(llm_list, Head(keys)))>>
          ELSE <<>>)
         \o GatedFrom(anchor, field_type, Tail(keys), base_keys, data_norm, ratio, llm_list)

\* the keys of merged: those process.extract returned, then those only the
\* model named
MergedKeys(base, data_keys, llm_list) ==
    [i \in 1..Len(base) |-> base[i].key]
    \o SelectSeq(data_keys,
                 LAMBDA k : /\ \A i \in 1..Len(base) : base[i].key # k
                            /\ LlmScore(llm_list, k) # -1)

\* the candidate list of one anchor; base is the result of process.extract
\* with token_set_ratio, limit=10
AnchorCandidates(anchor, field_type, base, data_keys, data_norm, ratio, llm_list) ==
    SortByTotal(GatedFrom(anchor, field_type, MergedKeys(base, data_keys, llm_list),
                          {base[i].key : i \in 1..Len(base)}, data_norm, ratio, llm_list))

\* the loop of _build_candidates over the anchors
RECURSIVE CandidatesOf(_, _, _, _, _, _)
CandidatesOf(anchors, i, data_keys, data_norm, ratio, llm_candidates) ==
    IF i > Len(anchors) THEN <<>>
    ELSE (IF anchors[i].anchor_id = "" \/ anchors[i].label_text = "" THEN <<>>
          ELSE anchors[i].anchor_id :>
                  AnchorCandidates(anchors[i], infer_field_type(anchors[i]),
                                   fuzzy_candidates(data_keys, ratio[anchors[i].anchor_id]),
                                   data_keys, data_norm, ratio[anchors[i].anchor_id],
                                   GetList(llm_candidates, anchors[i].anchor_id)))
         @@ CandidatesOf(anchors, i + 1, data_keys, data_norm, ratio, llm_candidates)

\* threshold_global = 0.55, in hundredths
ThresholdGlobal == 55

\* the rounds of conflict repair: range(3)
RepairPasses == 3

\* best - second of a candidate list
StabilityOf(cand_list) ==
    (IF Len(cand_list) > 0 THEN cand_list[1].total ELSE 0)
    - (IF Len(cand_list) > 1 THEN cand_list[2].total ELSE 0)

\* the first candidate is taken when its total reaches the threshold
AssignBestTotal(st, aid, cand_list) ==
    IF Len(cand_list) > 0 /\ cand_list[1].total >= Hundredths(ThresholdGlobal)
    THEN [st EXCEPT !.mapping_final = (aid :> cand_list[1].key) @@ @,
                    !.chosen_scores = (aid :> cand_list[1].total) @@ @]
    ELSE st

\* the greedy loop over the anchors in stability order
RECURSIVE GreedyAssign(_, _, _)
GreedyAssign(st, order, candidates) ==
    IF Len(order) = 0 THEN st
    ELSE GreedyAssign(AssignBestTotal(st, Head(order), GetList(candidates, Head(order))),
                      Tail(order), candidates)

\* _is_incompatible(t1, t2)
is_incompatible(t1, t2) ==
    \/ t1 \in {"PERSON_NAME", "PERSON_ADDRESS"} /\ t2 \in {"ORG_NAME", "ORG_ADDRESS"}
    \/ t2 \in {"PERSON_NAME", "PERSON_ADDRESS"} /\ t1 \in {"ORG_NAME", "ORG_ADDRESS"}

\* _anchor_keywords(a, tokens)
anchor_keywords(a, toks) ==
    ContainsAny(normalize_text(a.label_text \o " " \o a.nearby_text), toks)

\* the anchors of the body section that share a key while their field types
\* are a person's and an organization's
TypeCollisions(mapping_final, candidates) ==
    {a \in DOMAIN mapping_final :
        \E b \in DOMAIN mapping_final :
            /\ a # b
            /\ mapping_final[a] = mapping_final[b]
            /\ is_incompatible(candidates[a][1].field_type, candidates[b][1].field_type)}

\* has_org and has_person: an assigned anchor of the field type whose key
\* names one of the tokens
HasRoleKey(mapping_final, candidates, field_type, toks) ==
    \E aid \in DOMAIN mapping_final :
        /\ candidates[aid][1].field_type = field_type
        /\ ContainsAny(normalize_text(mapping_final[aid]), toks)

\* the section requirements: every anchor of the section is in conflict when
\* the section names an operator or a signatory and no anchor holds such a key
SectionConflicts(mapping_final, anchors, candidates) ==
    IF \/ /\ \E i \in 1..Len(anchors) :
                anchor_keywords(anchors[i], {"operator economic", "denumirea numele"})
          /\ ~HasRoleKey(mapping_final, candidates, "ORG_NAME",
                         {"ofertant", "operator economic", "contractant"})
       \/ /\ \E i \in 1..Len(anchors) : anchor_keywords(anchors[i], {"subsemnat"})
          /\ ~HasRoleKey(mapping_final, candidates, "PERSON_NAME",
                         {"imputernicit", "subsemnat", "reprezentant"})
    THEN {anchors[i].anchor_id : i \in 1..Len(anchors)} \ {""}
    ELSE {}

\* dict.pop(k, None)
Drop(d, k) == [x \in DOMAIN d \ {k} |-> d[x]]

\* the repair of one conflict anchor: its second candidate when it has one;
\* its assignment is dropped when no anchor of the round was repaired yet
RepairOne(rs, aid, cand_list) ==
    IF Len(cand_list) = 0 THEN rs
    ELSE IF Len(cand_list) > 1
    THEN [st |-> [rs.st EXCEPT !.mapping_final = (aid :> cand_list[2].key) @@ @,
                               !.chosen_scores = (aid :> cand_list[2].total) @@ @,
                               !.repairs_made = @ + 1],
          repaired_any |-> TRUE]
    ELSE IF ~rs.repaired_any /\ aid \in DOMAIN rs.st.mapping_final
    THEN [rs EXCEPT !.st.mapping_final = Drop(@, aid)]
    ELSE rs

RECURSIVE RepairLoop(_, _, _)
RepairLoop(rs, unique_conflicts, candidates) ==
    IF Len(unique_conflicts) = 0 THEN rs
    ELSE RepairLoop(RepairOne(rs, Head(unique_conflicts),
                              GetList(candidates, Head(unique_conflicts))),
                    Tail(unique_conflicts), candidates)

\* chosen_scores.get(aid, 0.0) of the conflict anchors
ChosenOrZero(chosen_scores, conflicts) ==
    [aid \in conflicts |-> IF aid \in DOMAIN chosen_scores THEN chosen_scores[aid] ELSE 0]

\* one pass of the repair loop, and the passes after it
RECURSIVE ConflictPass(_, _, _, _)
AfterRepair(rs, anchors, candidates, n) ==
    IF ~rs.repaired_any \/ n <= 1 THEN rs.st
    ELSE ConflictPass(rs.st, anchors, candidates, n - 1)

RepairConflicts(st, anchors, candidates, n, conflicts) ==
    IF conflicts = {} THEN st
    ELSE AfterRepair(RepairLoop([st |-> [st EXCEPT !.conflicts_found = @ + 1],
                                 repaired_any |-> FALSE],
                                OrderBy(conflicts, ChosenOrZero(st.chosen_scores, conflicts), 1),
                                candidates),
                     anchors, candidates, n)

ConflictPass(st, anchors, candidates, n) ==
    RepairConflicts(st, anchors, candidates, n,
                    TypeCollisions(st.mapping_final, candidates)
                    \cup SectionConflicts(st.mapping_final, anchors, candidates))

\* the field types a role pattern requires of the item at position pos
\* (0-based) of its cluster
RequiredTypes(role_pattern, pos) ==
    CASE role_pattern = "PERSON_THEN_ORG" ->
            IF pos = 0 THEN {"PERSON_NAME"} ELSE {"ORG_NAME", "ORG_ADDRESS"}
      [] role_pattern = "ORG_THEN_DATE" -> IF pos = 0 THEN {"ORG_NAME"} ELSE {"DATE_PARTS"}
      [] role_pattern = "ORG_ONLY" -> {"ORG_NAME"}
      [] role_pattern = "MONEY_THEN_PERCENT" -> IF pos = 0 THEN {"MONEY"} ELSE {"PERCENT"}
      [] OTHER -> {}

\* the items a role pattern is enforced on: the first two, all, or none
EnforcedItems(role_pattern, items) ==
    IF role_pattern \in {"PERSON_THEN_ORG", "MONEY_THEN_PERCENT"}
    THEN SubSeq(items, 1, Min(2, Len(items)))
    ELSE IF role_pattern \in {"ORG_THEN_DATE", "ORG_ONLY"} THEN items
    ELSE <<>>

\* the field_type entry of the candidate whose key is the anchor's current
\* key, or None
CurrentType(mapping_final, aid, cand_list) ==
    IF /\ aid \in DOMAIN mapping_final
       /\ mapping_final[aid] # ""
       /\ \E i \in 1..Len(cand_list) : cand_list[i].key = mapping_final[aid]
    THEN cand_list[CHOOSE i \in 1..Len(cand_list) :
                       /\ cand_list[i].key = mapping_final[aid]
                       /\ \A j \in 1..(i - 1) : cand_list[j].key # mapping_final[aid]].field_type
    ELSE "None"

\* _pick_best_of_type(aid, allowed): the key of the first candidate whose
\* field_type entry is allowed, or None
pick_best_of_type(cand_list, allowed) ==
    IF \E i \in 1..Len(cand_list) : cand_list[i].field_type \in allowed
    THEN cand_list[CHOOSE i \in 1..Len(cand_list) :
                       /\ cand_list[i].field_type \in allowed
                       /\ \A j \in 1..(i - 1) : cand_list[j].field_type \notin allowed].key
    ELSE "None"

\* the anchor takes next_key, or loses its assignment when there is none
EnforcePick(st, aid, next_key) ==
    IF next_key \notin {"None", ""}
    THEN [st EXCEPT !.mapping_final = (aid :> next_key) @@ @,
                    !.repairs_made = @ + 1,
                    !.role_repairs_made = @ + 1]
    ELSE IF aid \in DOMAIN st.mapping_final
    THEN [st EXCEPT !.mapping_final = Drop(@, aid), !.role_repairs_made = @ + 1]
    ELSE st

\* one item of a role cluster
EnforceOne(st, aid, required, cand_list) ==
    IF aid = "" \/ CurrentType(st.mapping_final, aid, cand_list) \in required THEN st
    ELSE EnforcePick([st EXCEPT !.conflicts_found = @ + 1], aid,
                     pick_best_of_type(cand_list, required))

RECURSIVE EnforceItems(_, _, _, _, _)
EnforceItems(st, role_pattern, items, pos, candidates) ==
    IF pos >= Len(items) THEN st
    ELSE EnforceItems(EnforceOne(st, items[pos + 1], RequiredTypes(role_pattern, pos),
                                 GetList(candidates, items[pos + 1])),
                      role_pattern, items, pos + 1, candidates)

\* the anchors of a cluster
ClusterItems(anchors, cid) == {anchors[i] : i \in {j \in 1..Len(anchors) : anchors[j].cluster_id = cid}}

\* items.sort(key=_cluster_sort_key): the anchor ids of the items in
\* ascending order of (paragraph_idx or -1, str(anchor_id))
cluster_sorted(items) ==
    OrderBy({a.anchor_id : a \in items},
            [aid \in {a.anchor_id : a \in items} |->
                ParagraphKey(CHOOSE a \in items : a.anchor_id = aid)],
            1)

\* a cluster with a role pattern is counted, its items sorted by
\* _cluster_sort_key and the pattern enforced
EnforceCluster(st, items, role_pattern, candidates) ==
    IF role_pattern = "None" THEN st
    ELSE EnforceItems([st EXCEPT !.role_clusters_detected = @ + 1], role_pattern,
                      EnforcedItems(role_pattern, cluster_sorted(items)),
                      0, candidates)

\* the role pattern of the cluster's first anchor
FirstRole(anchors, cid) ==
    anchors[CHOOSE i \in 1..Len(anchors) :
                /\ anchors[i].cluster_id = cid
                /\ \A j \in 1..(i - 1) : anchors[j].cluster_id # cid].role_pattern

RECURSIVE EnforceClusters(_, _, _, _)
EnforceClusters(st, anchors, cids, candidates) ==
    IF cids = {} THEN st
    ELSE LET cid == CHOOSE c \in cids : \A d \in cids : c <= d
         IN  EnforceClusters(EnforceCluster(st, ClusterItems(anchors, cid),
                                            FirstRole(anchors, cid), candidates),
                             anchors, cids \ {cid}, candidates)

\* solve_global_mapping(anchors, candidates): the greedy assignment in
\* stability order, the conflict repair, then the role patterns
solve_global_mapping(anchors, candidates) ==
    EnforceClusters(
        ConflictPass(
            GreedyAssign([mapping_final |-> <<>>, chosen_scores |-> <<>>,
                          conflicts_found |-> 0, repairs_made |-> 0,
                          role_clusters_detected |-> 0, role_repairs_made |-> 0],
                         OrderBy(DOMAIN candidates,
                                 [aid \in DOMAIN candidates |-> StabilityOf(candidates[aid])],
                                 -1),
                         candidates),
            anchors, candidates, RepairPasses),
        anchors, {anchors[i].cluster_id : i \in 1..Len(anchors)}, candidates)

\* anchor_map[aid]
AnchorById(anchors, aid) ==
    anchors[CHOOSE i \in 1..Len(anchors) :
                /\ anchors[i].anchor_id = aid
                /\ \A j \in (i + 1)..Len(anchors) : anchors[j].anchor_id # aid]

\* final_map of composite_map: the heuristic view of every anchor with
\* candidates; score is in hundredths of a score unit
FinalMap(anchors, candidates, mapping_final) ==
    [aid \in DOMAIN candidates |->
        [label_text |-> AnchorById(anchors, aid).label_text,
         json_key |-> GetName(mapping_final, aid),
         score |-> IF Len(candidates[aid]) > 0 THEN candidates[aid][1].total * 100 ELSE 0,
         ambiguous |-> aid \notin DOMAIN mapping_final,
         field_type |-> IF Len(candidates[aid]) > 0 THEN candidates[aid][1].field_type
                        ELSE "TEXT"]]

CompositeResult(anchors, candidates, llm_candidates, solved) ==
    [mapping_final |-> solved.mapping_final,
     mapping_heuristic |-> FinalMap(anchors, candidates, solved.mapping_final),
     mapping_llm |-> [candidates |-> llm_candidates],
     mapping_stats |-> [conflicts_found |-> solved.conflicts_found,
                        repairs_made |-> solved.repairs_made,
                        role_clusters_detected |-> solved.role_clusters_detected,
                        role_repairs_made |-> solved.role_repairs_made]]

CompositeOf(anchors, candidates, llm_candidates) ==
    CompositeResult(anchors, candidates, llm_candidates,
                    solve_global_mapping(anchors, candidates))

\* composite_map(anchors, data_norm, data_keys, model); llm_candidates is
\* what llm_suggest_candidates returned
composite_map(anchors, data_keys, data_norm, ratio, llm_candidates) ==
    CompositeOf(anchors,
                CandidatesOf(anchors, 1, data_keys, data_norm, ratio, llm_candidates),
                llm_candidates)

-----------------------------------------------------------------------------
(* llm/map_fields.py: heuristic_map.  ratio[key] is                        *)
(* fuzz.token_set_ratio of the anchor's normalized label and nearby text   *)
(* and the normalized key.                                                 *)

\* the tag rules of _infer_tags_from_text on t = _normalize_text(text)
FieldTagsOf(t) ==
    IF t = "" THEN {}
    ELSE UNION {
        IF ContainsAny(t, {"suma", "lei", "valoare", "tva", "taxa"}) THEN {"money"} ELSE {},
        IF ContainsAny(t, {"%", "procent"}) THEN {"percent"} ELSE {},
        IF ContainsAny(t, {"data", "ziua", "luna", "anul", "an"}) THEN {"date"} ELSE {},
        IF ContainsAny(t, {"durata", "zile", "luni"}) THEN {"duration"} ELSE {},
        IF ContainsAny(t, {"valabil", "valabilitate"}) THEN {"validity"} ELSE {},
        IF ContainsAny(t, {"servici", "furniz"}) THEN {"service"} ELSE {},
        IF ContainsAny(t, {"plata", "termen", "conditii"}) THEN {"payment"} ELSE {},
        IF ContainsAny(t, {"penalit", "doband"}) THEN {"penalty"} ELSE {},
        IF ContainsAny(t, {"adresa", "sediu", "domiciliu"}) THEN {"address"} ELSE {},
        IF ContainsAny(t, {"banca", "asigur", "parafata"}) THEN {"bank"} ELSE {},
        IF ContainsAny(t, {"denumirea", "numele", "operator", "ofertant", "achizitor"})
            THEN {"entity"} ELSE {},
        IF ContainsAny(t, {"autoritate", "catre"}) THEN {"authority"} ELSE {},
        IF Contains(t, "ofert") THEN {"offer"} ELSE {},
        IF Contains(t, "subcontract") THEN {"subcontract"} ELSE {},
        IF ContainsAny(t, {"reprezentant", "imputernicit", "semnatar", "persoana", "nume",
                           "functie", "director", "calitate", "dl", "dna"})
            THEN {"person", "role"} ELSE {},
        IF ContainsAny(t, {"cif", "cnp", "registrul", "comert", "serie", "numar", "bi", "ci"})
            THEN {"id"} ELSE {},
        IF ContainsAny(t, {"procedura", "contract", "achizitie"}) THEN {"process"} ELSE {}}

\* _infer_tags_from_text(text) of map_fields.py, as a set
infer_tags_from_text(text) == FieldTagsOf(normalize_text(text))

\* \b at offset p of s
WordBoundary(s, p) ==
    (p > 0 /\ IsWordChar(CharAt(s, p - 1))) # (p < Len(s) /\ IsWordChar(CharAt(s, p)))

\* re.search(r"\b\d+\b", text)
HasNumberText(s) ==
    \E i \in 0..(Len(s) - 1), j \in 1..Len(s) :
        i < j /\ DigitsAt(s, i, j - i) /\ WordBoundary(s, i) /\ WordBoundary(s, j)

\* re.search(r"\b\d+[\d\s\.]*\b", text)
HasMoneyText(s) ==
    \E i \in 0..(Len(s) - 1), j \in 1..Len(s) :
        /\ i < j
        /\ IsDigit(CharAt(s, i))
        /\ \A k \in i..(j - 1) :
              IsDigit(CharAt(s, k)) \/ IsSpace(CharAt(s, k)) \/ CharAt(s, k) = "."
        /\ WordBoundary(s, i) /\ WordBoundary(s, j)

\* _value_matches_type(value, field_type) of map_fields.py
field_value_matches_type(value, field_type) ==
    IF value = NoneVal THEN TRUE
    ELSE IF field_type = "DATE" THEN HasDateText(value.s)
    ELSE IF field_type = "MONEY" THEN HasMoneyText(value.s)
    ELSE IF field_type = "PERCENT" THEN Contains(value.s, "%") \/ HasNumberText(value.s)
    ELSE IF field_type = "NUMBER" THEN HasNumberText(value.s)
    ELSE TRUE

\* the weights of _score_candidate, in hundredths
SimilarityWeight == 70

TypeScoreWeight == 20

ContextScoreWeight == 10

\* _score_candidate(text_similarity, field_type, key_type, label, nearby, key)
score_candidate(text_similarity, field_type, key_type, label, nearby, key) ==
    (SimilarityWeight * text_similarity
     + TypeScoreWeight * (IF type_compatible(field_type, key_type) THEN ScoreUnit ELSE 0)
     + ContextScoreWeight * context_score(label, nearby, key)) \div 100

\* the tests of _heuristic_mapping that pass a candidate over; ListVal is a
\* list of records
HeuristicSkips(field_type, key_type, value) ==
    \/ field_type = "TABLE" /\ ~IsListOrDict(value)
    \/ field_type # "TABLE" /\ IsListOrDict(value)
    \/ field_type = "DATE" /\ key_type # "DATE"
    \/ /\ field_type \in {"MONEY", "PERCENT", "NUMBER"}
       /\ ~field_value_matches_type(value, field_type)
    \/ /\ field_type \in {"PERSON_NAME", "PERSON_ADDRESS", "ORG_NAME", "ORG_ADDRESS"}
       /\ key_type # field_type
    \/ /\ field_type \notin {"TEXT", "CHECKBOX_GROUP"}
       /\ ~type_compatible(field_type, key_type)

\* if score > best_score: the first of the best candidates is kept
BetterOf(best, key, score) ==
    IF score > best.score THEN [key |-> key, score |-> score] ELSE best

HeuristicStep(best, anchor, field_type, key, key_type, sim, value) ==
    IF HeuristicSkips(field_type, key_type, value) THEN best
    ELSE BetterOf(best, key,
                  score_candidate(sim, field_type, key_type, anchor.label_text,
                                  anchor.nearby_text, key))

\* the loop over deduped; the keys of a record are distinct and no model
\* candidates are passed, so deduped is what process.extract returned
RECURSIVE HeuristicBest(_, _, _, _, _, _)
HeuristicBest(best, matches, i, anchor, field_type, data_norm) ==
    IF i > Len(matches) THEN best
    ELSE HeuristicBest(HeuristicStep(best, anchor, field_type, matches[i].key,
                                     infer_key_type(matches[i].key), matches[i].score,
                                     Get(data_norm, matches[i].key)),
                       matches, i + 1, anchor, field_type, data_norm)

\* the keys that share a tag with the label, or every key when none does
FilteredKeys(data_keys, label_tags) ==
    SelectSeq(data_keys,
              LAMBDA k : label_tags = {} \/ label_tags \cap infer_tags_from_text(k) # {})

KeysOr(filtered, data_keys) == IF Len(filtered) > 0 THEN filtered ELSE data_keys

\* threshold = 0.6, in hundredths
HeuristicAccept == 60

\* the entry of an anchor; score is in hundredths of a score unit
HeuristicItem(anchor, field_type, best) ==
    [label_text |-> anchor.label_text,
     json_key |-> best.key,
     score |-> best.score * 100,
     ambiguous |-> best.score < Hundredths(HeuristicAccept) \/ best.key = "None",
     field_type |-> field_type]

\* a label that reads "data" takes the key that reads "data" outright
AnchorHeuristic(anchor, field_type, data_keys, data_norm, ratio, exact) ==
    IF normalize_text(anchor.label_text) = "data" /\ Len(exact) > 0
    THEN [label_text |-> anchor.label_text, json_key |-> exact[1],
          score |-> 100 * ScoreUnit, ambiguous |-> FALSE, field_type |-> field_type]
    ELSE HeuristicItem(
             anchor, field_type,
             HeuristicBest([key |-> "None", score |-> 0],
                           fuzzy_candidates(
                               KeysOr(FilteredKeys(data_keys,
                                                   infer_tags_from_text(
                                                       anchor.label_text \o " "
                                                       \o anchor.nearby_text)),
                                      data_keys),
                               ratio),
                           1, anchor, field_type, data_norm))

\* _heuristic_mapping(anchors, data_norm, data_keys, None, 0.6): the loop over
\* the anchors
RECURSIVE heuristic_mapping(_, _, _, _, _)
heuristic_mapping(anchors, i, data_keys, data_norm, ratio) ==
    IF i > Len(anchors) THEN <<>>
    ELSE (IF \/ anchors[i].anchor_id = "" \/ anchors[i].label_text = ""
             \/ /\ normalize_text(anchors[i].label_text) = ""
                /\ normalize_text(anchors[i].nearby_text) = ""
             \/ Len(data_keys) = 0
          THEN <<>>
          ELSE anchors[i].anchor_id :>
                  AnchorHeuristic(anchors[i], infer_field_type(anchors[i]), data_keys,
                                  data_norm, ratio[anchors[i].anchor_id],
                                  SelectSeq(data_keys,
                                            LAMBDA k : normalize_text(k) = "data")))
         @@ heuristic_mapping(anchors, i + 1, data_keys, data_norm, ratio)

\* heuristic_map(anchors, data_norm, data_keys, threshold=0.6)
heuristic_map(anchors, data_keys, data_norm, ratio) ==
    heuristic_mapping(anchors, 1, data_keys, data_norm, ratio)

\* the confidences, in hundredths, the model may give a key it suggests
LlmConfidences == {90}

\* llm_suggest_candidates(anchors, data_keys, base, model), as the set of the
\* results the model's answer may give: nothing when base marks no anchor
\* ambiguous; otherwise nothing, or one key of the record for one anchor
llm_suggest_candidates(anchors, data_keys, base) ==
    {<<>>} \cup
    (IF \E aid \in DOMAIN base : base[aid].ambiguous
     THEN {anchors[i].anchor_id :> <<[key |-> data_keys[k], confidence |-> c]>> :
              i \in 1..Len(anchors), k \in 1..Len(data_keys), c \in LlmConfidences}
     ELSE {})

-----------------------------------------------------------------------------
(* validate/mapping_rules.py *)

\* the tag rules of _infer_tags_from_text of mapping_rules.py on t = text.lower()
RuleTagsOf(t) ==
    IF t = "" THEN {}
    ELSE UNION {
        IF ContainsAny(t, {"suma", "lei", "valoare", "tva", "taxa"}) THEN {"money"} ELSE {},
        IF ContainsAny(t, {"%", "procent"}) THEN {"percent"} ELSE {},
        IF ContainsAny(t, {"data", "ziua", "luna", "anul", "an"}) THEN {"date"} ELSE {},
        IF ContainsAny(t, {"durata", "zile", "luni"}) THEN {"duration"} ELSE {},
        IF ContainsAny(t, {"servici", "furniz"}) THEN {"service"} ELSE {},
        IF ContainsAny(t, {"adresa", "sediu", "domiciliu"}) THEN {"address"} ELSE {},
        IF ContainsAny(t, {"banca", "asigur", "parafata"}) THEN {"bank"} ELSE {},
        IF ContainsAny(t, {"denumirea", "numele", "operator", "ofertant", "achizitor"})
            THEN {"entity"} ELSE {},
        IF ContainsAny(t, {"reprezentant", "imputernicit", "semnatar", "persoana", "nume",
                           "functie", "director", "calitate", "dl", "dna"})
            THEN {"person", "role"} ELSE {},
        IF ContainsAny(t, {"procedura", "contract", "achizitie"}) THEN {"process"} ELSE {}}

\* _is_critical_label(label_text)
is_critical_label(label_text) ==
    ContainsAny(Lower(label_text),
                {"suma", "tva", "valoare", "procent", "data", "zi", "luna", "an", "valabil",
                 "lista", "tabel", "subcontract"})

TagsCompatible(label_tags, key_tags) ==
    label_tags = {} \/ key_tags = {} \/ label_tags \cap key_tags # {}

\* _tags_compatible(label_text, json_key)
tags_compatible(label_text, json_key) ==
    TagsCompatible(RuleTagsOf(Lower(label_text)), RuleTagsOf(Lower(json_key)))

\* _looks_like_heading(label_text) on text = label_text.strip(): empty, or
\* without a letter, or at most four capitals and dots
LooksLikeHeading(text) ==
    \/ text = ""
    \/ \A i \in 0..(Len(text) - 1) : ~IsLetter(CharAt(text, i))
    \/ /\ Len(text) <= 4
       /\ \A i \in 0..(Len(text) - 1) : CharAt(text, i) \in UpperSet \cup {"."}

looks_like_heading(label_text) == LooksLikeHeading(Strip(label_text))

\* _looks_like_placeholder(label_text)
looks_like_placeholder(label_text) ==
    Contains(label_text, "___") \/ Contains(label_text, "...")

\* bool(anchor.get("placeholder_span")) or _looks_like_placeholder(label_text):
\* the placeholder_span of an anchor of extract_anchors is a dict of three keys
has_placeholder(anchor) == TRUE \/ looks_like_placeholder(anchor.label_text)

\* the caps of heuristic_threshold_local, in hundredths
PlaceholderThreshold == 80

CriticalThreshold == 75

\* heuristic_threshold_local
LocalThreshold(heuristic_threshold, placeholder, critical) ==
    Min(IF placeholder THEN Min(heuristic_threshold, PlaceholderThreshold)
        ELSE heuristic_threshold,
        IF critical THEN CriticalThreshold ELSE heuristic_threshold)

\* _apply_heuristic(): the anchor takes str(json_key), which is "None" for no key
apply_heuristic(heuristic, aid, label_text, threshold_local) ==
    /\ aid \in DOMAIN heuristic
    /\ heuristic[aid].score >= threshold_local * ScoreUnit
    /\ tags_compatible(label_text, heuristic[aid].json_key)

\* one anchor of merge_mappings.  The llm dict of the pipeline is
\* {"candidates": ...}: it has no "items", so _apply_llm() finds no item and
\* the critical and the other branch both come down to _apply_heuristic()
MergeOne(anchor, heuristic, heuristic_threshold) ==
    IF \/ anchor.anchor_id = ""
       \/ looks_like_heading(anchor.label_text) /\ ~has_placeholder(anchor)
    THEN <<>>
    ELSE IF apply_heuristic(heuristic, anchor.anchor_id, anchor.label_text,
                            LocalThreshold(heuristic_threshold, has_placeholder(anchor),
                                           is_critical_label(anchor.label_text)))
    THEN anchor.anchor_id :> heuristic[anchor.anchor_id].json_key
    ELSE <<>>

RECURSIVE MergeFrom(_, _, _, _)
MergeFrom(anchors, i, heuristic, heuristic_threshold) ==
    IF i > Len(anchors) THEN <<>>
    ELSE MergeOne(anchors[i], heuristic, heuristic_threshold)
         @@ MergeFrom(anchors, i + 1, heuristic, heuristic_threshold)

\* merge_mappings(anchors, heuristic, llm, heuristic_threshold, llm_threshold,
\* prioritize_llm)
merge_mappings(anchors, heuristic, heuristic_threshold) ==
    MergeFrom(anchors, 1, heuristic, heuristic_threshold)

-----------------------------------------------------------------------------
(* data/normalize.py *)

\* _normalize_value(_try_parse_json(value)) of a string that is no JSON text,
\* of None and of a parsed list
normalize_value(value) == IF IsStr(value) THEN StrVal(Strip(value.s)) ELSE value

\* normalize_data(raw)[0]
normalize_data(raw) == [k \in DOMAIN raw |-> normalize_value(raw[k])]

-----------------------------------------------------------------------------
(* pipeline/graph.py, on a template of one body paragraph that holds no    *)
(* checkbox marks and no tables.                                           *)

\* d.get(k, default)
GetOr(d, k, default) == IF k \in DOMAIN d THEN d[k] ELSE default

\* s.startswith(prefix)
StartsWith(s, prefix) == Len(s) >= Len(prefix) /\ Slice(s, 0, Len(prefix)) = prefix

\* the State run_pipeline starts from
InitialState ==
    [anchors |-> <<>>, field_spans |-> <<>>, span_mapping |-> <<>>,
     suspicious_fills |-> <<>>, data_norm |-> <<>>, mapping_heuristic |-> <<>>,
     mapping_llm |-> <<>>, mapping_final |-> <<>>, mapping_stats |-> <<>>,
     issues |-> <<>>, actions |-> <<>>, report |-> <<>>]

\* _normalize_data_node
normalize_data_node(st, data_raw) ==
    [st EXCEPT !.data_norm = normalize_data(data_raw), !.issues = st.issues]

\* _extract_anchors_node
extract_anchors_node(st, template) ==
    [st EXCEPT !.anchors = extract_anchors(template),
               !.field_spans = DocSpans(template, 0)]

\* _heuristic_map_node: the threshold it is handed is not used
heuristic_map_node(st, data_keys, ratio) ==
    [st EXCEPT !.mapping_heuristic = heuristic_map(st.anchors, data_keys, st.data_norm, ratio)]

UpdateFromComposite(st, composite) ==
    [st EXCEPT !.mapping_heuristic = composite.mapping_heuristic,
               !.mapping_llm = composite.mapping_llm,
               !.mapping_final = composite.mapping_final,
               !.mapping_stats = composite.mapping_stats]

\* _llm_map_ambiguous_node; composite is what composite_map returned
llm_map_ambiguous_node(st, composite) == UpdateFromComposite(st, composite)

\* unmatched of map_field_spans
unmatched_spans(spans, mapping) ==
    SelectSeq(spans, LAMBDA s : /\ GetName(mapping, s.span_id) \in {"None", ""}
                                /\ s.blank_kind # "checkbox")

\* _map_spans_node
map_spans_node(st, result) ==
    [st EXCEPT !.span_mapping =
        [mapping |-> result.mapping,
         candidates |-> result.candidates,
         computed_values |-> result.computed_values,
         expected_types |-> result.expected_types,
         unmatched |-> unmatched_spans(st.field_spans, result.mapping),
         type_mismatch_prevented |-> result.type_mismatch_prevented]]

IssuesFrom(unmatched) ==
    [i \in 1..Len(unmatched) |->
        [label |-> unmatched[i].label_text, location |-> unmatched[i].paragraph_idx]]

\* unmatched of _validate_merge_node: the anchors without an entry in
\* mapping_final, each by its label and the paragraph it stands in
UnmatchedAnchors(anchors, mapping_final) ==
    IssuesFrom(SelectSeq(anchors, LAMBDA a : a.anchor_id \notin DOMAIN mapping_final))

WithIssues(st) == [st EXCEPT !.issues = UnmatchedAnchors(st.anchors, st.mapping_final)]

\* _validate_merge_node: merge_mappings runs only on an empty mapping_final
validate_merge_node(st, heuristic_threshold) ==
    WithIssues([st EXCEPT !.mapping_final =
                   IF DOMAIN st.mapping_final = {}
                   THEN merge_mappings(st.anchors, st.mapping_heuristic, heuristic_threshold)
                   ELSE st.mapping_final])

\* the call of fill_spans_in_docx on a fresh Document(template_path)
SpansFilled(st, template) ==
    fill_spans_in_docx(<<SetRunText(template[1])>>, st.field_spans,
                       GetOr(st.span_mapping, "mapping", <<>>), st.data_norm,
                       GetOr(st.span_mapping, "computed_values", <<>>),
                       GetOr(st.span_mapping, "expected_types", <<>>))

Summary(filled_text, filled_checkboxes, filled_tables) ==
    [type |-> "summary", filled_text |-> filled_text,
     filled_checkboxes |-> filled_checkboxes, filled_tables |-> filled_tables]

\* checkbox_anchors is not empty
HasCheckboxAnchors(anchors) ==
    \E i \in 1..Len(anchors) :
        \/ anchors[i].kind \in {"checkbox", "checkbox_group"}
        \/ infer_field_type(anchors[i]) = "CHECKBOX_GROUP"

\* table_json_keys is not empty
HasTableKeys(data_norm) == \E k \in DOMAIN data_norm : IsListOrDict(data_norm[k])

\* the loop over the anchors that ends _fill_docx_node
CatreMappedToDate(anchors, mapping) ==
    \E i \in 1..Len(anchors) :
        /\ Contains(Lower(anchors[i].label_text \o " " \o anchors[i].nearby_text), "catre")
        /\ GetName(mapping, anchors[i].anchor_id) \notin {"None", ""}
        /\ \/ infer_key_type(mapping[anchors[i].anchor_id]) \in {"DATE", "DATE_PARTS"}
           \/ StartsWith(Lower(Strip(mapping[anchors[i].anchor_id])), "data")

\* what _fill_docx_node raises after doc.save; the template holds no checkbox
\* and no table, so checkbox_filled and table_filled are 0
FatalAfterSave(st) ==
    IF HasCheckboxAnchors(st.anchors)
    THEN "CHECKBOX_GROUP anchors present but no checkboxes filled"
    ELSE IF HasTableKeys(st.data_norm)
    THEN "TABLE json_keys present but tables not filled"
    ELSE IF CatreMappedToDate(st.anchors, st.mapping_final)
    THEN "Catre mapped to DATE key"
    ELSE "None"

\* _fill_docx_node without its dry-run branch
ReachesSave_InDryRun(dry_run, fatal) == fatal = "None"

\* whether _fill_docx_node reaches doc.save: the dry-run branch returns before
\* it, and a SystemExit of fill_spans_in_docx leaves the node
ReachesSave(dry_run, fatal) == ~dry_run /\ fatal = "None"

\* the node once fill_spans_in_docx is over: the state, whether doc.save ran,
\* the paragraphs saved and the SystemExit raised.  Without a save the node
\* is in its dry-run branch.  actions is one list object, so the summary
\* appended before a raise stays in the state
FillOutcome(st, filled, saved, fatal_after) ==
    IF filled.fatal # "None"
    THEN [state |-> st, saved |-> saved, document |-> <<>>, exit |-> filled.fatal]
    ELSE IF ~saved
    THEN [state |-> [st EXCEPT !.actions = Append(st.actions, Summary(filled.filled, 0, 0)),
                               !.suspicious_fills = filled.suspicious],
          saved |-> FALSE, document |-> <<>>, exit |-> "None"]
    ELSE [state |-> [st EXCEPT !.actions = Append(st.actions, Summary(filled.filled, 0, 0)),
                               !.suspicious_fills =
                                   IF fatal_after = "None" THEN filled.suspicious
                                   ELSE st.suspicious_fills],
          saved |-> TRUE,
          document |-> <<ParagraphText(filled.runs)>> \o filled.siblings,
          exit |-> fatal_after]

FillWith(st, dry_run, filled) ==
    FillOutcome(st, filled, ReachesSave(dry_run, filled.fatal), FatalAfterSave(st))

\* _fill_docx_node
fill_docx_node(st, template, dry_run) == FillWith(st, dry_run, SpansFilled(st, template))

\* next(a for a in reversed(actions) if a["type"] == "summary"), or {}
LastSummary(actions) ==
    IF \E i \in 1..Len(actions) : actions[i].type = "summary"
    THEN actions[CHOOSE i \in 1..Len(actions) :
                     /\ actions[i].type = "summary"
                     /\ \A j \in (i + 1)..Len(actions) : actions[j].type # "summary"]
    ELSE <<>>

CountType(actions, type) == Len(SelectSeq(actions, LAMBDA a : a.type = type))

MappingSummary(st) ==
    [i \in 1..Len(st.anchors) |->
        [anchor_id |-> st.anchors[i].anchor_id,
         label_text |-> st.anchors[i].label_text,
         heuristic |-> GetOr(st.mapping_heuristic, st.anchors[i].anchor_id, "None"),
         llm |-> GetOr(GetOr(st.mapping_llm, "candidates", <<>>),
                       st.anchors[i].anchor_id, "None"),
         final_key |-> GetName(st.mapping_final, st.anchors[i].anchor_id)]]

ReportOf(st, data_keys, summary) ==
    [anchors_total |-> Len(st.anchors),
     filled_text |-> GetOr(summary, "filled_text", CountType(st.actions, "text")),
     filled_checkboxes |-> GetOr(summary, "filled_checkboxes",
                                 CountType(st.actions, "checkbox")),
     filled_tables |-> GetOr(summary, "filled_tables", 0),
     unmatched_anchors |-> st.issues,
     unused_json_keys |->
         SelectSeq(data_keys,
                   LAMBDA k : k \notin {st.mapping_final[a] : a \in DOMAIN st.mapping_final}),
     mapping_summary |-> MappingSummary(st),
     actions |-> [text |-> CountType(st.actions, "text"),
                  checkbox |-> CountType(st.actions, "checkbox"),
                  table |-> GetOr(summary, "filled_tables", 0)],
     total_field_spans |-> Len(st.field_spans),
     unmatched_spans |-> GetOr(st.span_mapping, "unmatched", <<>>),
     type_mismatch_prevented |-> GetOr(st.span_mapping, "type_mismatch_prevented", <<>>),
     unmatched_slots |-> GetOr(st.span_mapping, "unmatched", <<>>),
     suspicious_fills |-> st.suspicious_fills,
     conflicts_found |-> GetOr(st.mapping_stats, "conflicts_found", 0),
     repairs_made |-> GetOr(st.mapping_stats, "repairs_made", 0),
     role_clusters_detected |-> GetOr(st.mapping_stats, "role_clusters_detected", 0),
     role_repairs_made |-> GetOr(st.mapping_stats, "role_repairs_made", 0)]

\* _report_node
report_node(st, data_keys) ==
    [st EXCEPT !.report = ReportOf(st, data_keys, LastSummary(st.actions))]

\* the default heuristic_threshold and repair_heuristic_threshold of run_pipeline
HeuristicThreshold == 90

RepairHeuristicThreshold == 80

\* the end of run_pipeline: raise SystemExit(2), or return result
StrictExit(strict, issues) == IF strict /\ Len(issues) > 0 THEN "2" ELSE "None"

-----------------------------------------------------------------------------
(* docx_io/fill_checkboxes.py.  A document is the list of the texts of its *)
(* body paragraphs, each of one run; ratio[t] is fuzz.token_set_ratio of   *)
(* the value and the option text t.                                        *)

CHECKBOX_PATTERN == "|_|"

CHECKBOX_MARKED == "|x|"

\* the score below which no option is marked
MinOptionScore == 70

\* normalize_key(value) of data/normalize.py, on ASCII text
normalize_key(value) == JoinWith(SplitWs(Lower(value)), " ")

\* process.extractOne(query, choices, scorer): the first choice of the best score
BestChoice(choices, ratio) ==
    CHOOSE i \in 1..Len(choices) :
        /\ \A j \in 1..Len(choices) : ratio[choices[j]] <= ratio[choices[i]]
        /\ \A j \in 1..(i - 1) : ratio[choices[j]] < ratio[choices[i]]

\* replace_span_across_runs(paragraph, start, end, CHECKBOX_MARKED) on the
\* paragraph of a document: whether it replaced, and the document after it
MarkParagraph(doc, p_idx, start, end) ==
    [ok |-> replace_span_across_runs(<<SetRunText(doc[p_idx + 1])>>, start, end,
                                     CHECKBOX_MARKED).ok,
     doc |-> [doc EXCEPT ![p_idx + 1] =
                 ParagraphText(replace_span_across_runs(<<SetRunText(doc[p_idx + 1])>>,
                                                        start, end, CHECKBOX_MARKED).runs)]]

\* a fill that was counted: the Document instance whose paragraph was
\* written, the paragraph and the mark
CountedFill(instance, p_idx, start, end) ==
    [instance |-> instance, container |-> p_idx, start |-> start, end |-> end]

\* the write of fill_checkbox_groups through the container of an option:
\* the paragraph written is the one of the document the anchors were
\* extracted from
MarkOption(st, opt, marked) ==
    IF ~marked.ok THEN st
    ELSE [st EXCEPT !.extracted = marked.doc,
                    !.filled = @ + 1,
                    !.fills = Append(@, CountedFill("extract_anchors_node", opt.container,
                                                    opt.span.start, opt.span.end))]

\* data.get(key) or data.get(normalize_key(key))
ValueOrNormalized(data, key) ==
    IF Get(data, key) \notin {NoneVal, StrVal("")} THEN Get(data, key)
    ELSE Get(data, normalize_key(key))

\* the texts of the options of a group
OptionTexts(options) == [k \in 1..Len(options) |-> Strip(options[k].text)]

\* the option of the best score is marked when the score reaches 70
MarkBest(st, options, best_idx, ratio) ==
    IF ratio[OptionTexts(options)[best_idx]] < MinOptionScore THEN st
    ELSE MarkOption(st, options[best_idx],
                    MarkParagraph(st.extracted, options[best_idx].container,
                                  options[best_idx].span.start, options[best_idx].span.end))

\* one anchor of fill_checkbox_groups
FillGroup(st, anchor, data, mapping, ratio) ==
    IF anchor.kind # "checkbox_group" THEN st
    ELSE IF GetName(mapping, anchor.label_text) \in {"None", ""} THEN st
    ELSE IF ~IsStr(ValueOrNormalized(data, mapping[anchor.label_text])) THEN st
    ELSE IF Len(anchor.options) = 0 THEN st
    ELSE MarkBest(st, anchor.options, BestChoice(OptionTexts(anchor.options), ratio), ratio)

\* fill_checkbox_groups(anchors, data, mapping)
RECURSIVE fill_checkbox_groups(_, _, _, _, _, _)
fill_checkbox_groups(st, anchors, i, data, mapping, ratio) ==
    IF i > Len(anchors) THEN st
    ELSE fill_checkbox_groups(FillGroup(st, anchors[i], data, mapping, ratio),
                              anchors, i + 1, data, mapping, ratio)

\* mapping.get(full_label) or mapping.get(label, label) of _get_mapping_value
\* for a text of one line; "None" is the None a label without a key maps to
MappingKey(text, mapping) ==
    IF GetName(mapping, StripOf(text, {" ", ":", "\t"})) \notin {"None", ""}
    THEN mapping[StripOf(text, {" ", ":", "\t"})]
    ELSE GetOr(mapping, StripOf(text, {" ", ":", "\t"}), StripOf(text, {" ", ":", "\t"}))

\* data.get(key), and data.get(normalize_key(key)) when that is None
ValueThenNormalized(data, key) ==
    IF Get(data, key) # NoneVal THEN Get(data, key) ELSE Get(data, normalize_key(key))

\* _find_checkbox_occurrences(text)
find_checkbox_occurrences(text) ==
    SortedByStart({m \in CheckboxMatches(text, 0) :
                      Slice(text, m.start, m.end) = CHECKBOX_PATTERN})

\* the options of a text of one line: its marks, each with the text of the
\* line without its marks
LineGroup(text) ==
    [k \in 1..Len(find_checkbox_occurrences(text)) |->
        [text |-> Strip(Remove(Remove(text, CHECKBOX_PATTERN), CHECKBOX_MARKED)),
         span |-> find_checkbox_occurrences(text)[k]]]

\* the write of fill_checkboxes_in_container: the paragraph written is the
\* one of the document the container was taken from
MarkContainer(st, p_idx, span, marked) ==
    IF ~marked.ok THEN st
    ELSE [st EXCEPT !.opened = marked.doc,
                    !.filled = @ + 1,
                    !.fills = Append(@, CountedFill("fill_docx_node", p_idx,
                                                    span.start, span.end))]

\* the option of the best score of the container is marked
MarkBestInContainer(st, p_idx, group, best_idx, ratio) ==
    IF ratio[group[best_idx].text] < MinOptionScore THEN st
    ELSE MarkContainer(st, p_idx, group[best_idx].span,
                       MarkParagraph(st.opened, p_idx, group[best_idx].span.start,
                                     group[best_idx].span.end))

\* fill_checkboxes_in_container(container, data, mapping) for a container of
\* one line; normalize_key(None) raises TypeError
FillContainer(st, p_idx, text, data, mapping, ratio) ==
    IF ~Contains(text, CHECKBOX_PATTERN) THEN st
    ELSE IF MappingKey(text, mapping) = "None" THEN [st EXCEPT !.exit = "TypeError"]
    ELSE IF ~IsStr(ValueThenNormalized(data, MappingKey(text, mapping))) THEN st
    ELSE MarkBestInContainer(st, p_idx, LineGroup(text),
                             BestChoice([k \in 1..Len(LineGroup(text)) |-> LineGroup(text)[k].text],
                                        ratio),
                             ratio)

\* the loop of _fill_docx_node over the containers of the document it opened
RECURSIVE FillContainers(_, _, _, _, _)
FillContainers(st, p_idx, data, mapping, ratio) ==
    IF p_idx >= Len(st.opened) \/ st.exit # "None" THEN st
    ELSE FillContainers(FillContainer(st, p_idx, st.opened[p_idx + 1], data, mapping, ratio),
                        p_idx + 1, data, mapping, ratio)

\* label_mapping of _fill_docx_node: the key of every label, the later
\* anchor of a label winning
RECURSIVE LabelMapping(_, _, _)
LabelMapping(anchors, i, mapping_final) ==
    IF i > Len(anchors) THEN <<>>
    ELSE IF anchors[i].label_text = "" THEN LabelMapping(anchors, i + 1, mapping_final)
    ELSE LabelMapping(anchors, i + 1, mapping_final)
         @@ (anchors[i].label_text :> GetName(mapping_final, anchors[i].anchor_id))

\* the checkbox part of _fill_docx_node: fill_checkbox_groups on the anchors,
\* then fill_checkboxes_in_container on every container of the document the
\* node opened
FillCheckboxes(st, anchors, data, mapping_final, ratio) ==
    IF ~HasCheckboxAnchors(anchors) THEN st
    ELSE FillContainers(fill_checkbox_groups(st, anchors, 1, data,
                                             LabelMapping(anchors, 1, mapping_final), ratio),
                        0, data, LabelMapping(anchors, 1, mapping_final), ratio)

-----------------------------------------------------------------------------
(* docx_io/traverse.py.  A document is its body paragraphs (a count), its  *)
(* body tables and its sections; a table is its rows, a row its cells, a   *)
(* cell its paragraphs (a count) and the tables nested in it.  A container *)
(* is known by the path that leads to its paragraph in the tree.  The      *)
(* optional fields of a Location are held in digits, None as "None".       *)

Location(type, section_idx, header_footer, table_idx, row, col, paragraph_idx) ==
    [type |-> type, section_idx |-> section_idx, header_footer |-> header_footer,
     table_idx |-> table_idx, row |-> row, col |-> col, paragraph_idx |-> paragraph_idx]

TextContainer(kind, path, location) == [kind |-> kind, path |-> path, location |-> location]

\* a step of a path: the p-th paragraph, t-th table, r-th row, c-th cell
Step(letter, idx) == letter \o ToString(idx)

\* the paragraphs of a part (body, header, footer or cell), from index p_idx
RECURSIVE ParagraphsFrom(_, _, _, _, _)
ParagraphsFrom(count, p_idx, kind, base, path) ==
    IF p_idx >= count THEN <<>>
    ELSE <<TextContainer(kind, Append(path, Step("p", p_idx)),
                         [base EXCEPT !.paragraph_idx = ToString(p_idx)])>>
         \o ParagraphsFrom(count, p_idx + 1, kind, base, path)

RECURSIVE iter_paragraphs_in_cell(_, _, _)
RECURSIVE iter_table_paragraphs(_, _, _, _)
RECURSIVE TablesFrom(_, _, _, _)
RECURSIVE CellsFrom(_, _, _, _, _, _)
RECURSIVE RowsFrom(_, _, _, _, _)

\* the tables of a part from index t_idx, each walked with the base location
TablesFrom(tables, t_idx, base, path) ==
    IF t_idx >= Len(tables) THEN <<>>
    ELSE iter_table_paragraphs(tables[t_idx + 1], base, t_idx, Append(path, Step("t", t_idx)))
         \o TablesFrom(tables, t_idx + 1, base, path)

\* _iter_paragraphs_in_cell(cell, location_base): the paragraphs of the
\* cell, then the tables nested in it, numbered from 0 within the cell
iter_paragraphs_in_cell(cell, location_base, path) ==
    ParagraphsFrom(cell.paragraphs, 0, "table", location_base, path)
    \o TablesFrom(cell.tables, 0, location_base, path)

\* the cells of a row from index c_idx
CellsFrom(row, r_idx, c_idx, location_base, table_idx, path) ==
    IF c_idx >= Len(row) THEN <<>>
    ELSE iter_paragraphs_in_cell(
             row[c_idx + 1],
             Location(location_base.type, location_base.section_idx,
                      location_base.header_footer, ToString(table_idx),
                      ToString(r_idx), ToString(c_idx), "None"),
             Append(Append(path, Step("r", r_idx)), Step("c", c_idx)))
         \o CellsFrom(row, r_idx, c_idx + 1, location_base, table_idx, path)

\* the rows of a table from index r_idx
RowsFrom(table, r_idx, location_base, table_idx, path) ==
    IF r_idx >= Len(table) THEN <<>>
    ELSE CellsFrom(table[r_idx + 1], r_idx, 0, location_base, table_idx, path)
         \o RowsFrom(table, r_idx + 1, location_base, table_idx, path)

\* _iter_table_paragraphs(table, location_base, table_idx)
iter_table_paragraphs(table, location_base, table_idx, path) ==
    RowsFrom(table, 0, location_base, table_idx, path)

\* the header or the footer of section s_idx: its paragraphs, then its tables
HeaderFooter(part, s_idx, name) ==
    ParagraphsFrom(part.paragraphs, 0, "header_footer",
                   Location(name, ToString(s_idx), name, "None", "None", "None", "None"),
                   <<Step("s", s_idx), name>>)
    \o TablesFrom(part.tables, 0,
                  Location(name, ToString(s_idx), name, "None", "None", "None", "None"),
                  <<Step("s", s_idx), name>>)

\* _iter_section_paragraphs(doc)
RECURSIVE iter_section_paragraphs(_, _)
iter_section_paragraphs(sections, s_idx) ==
    IF s_idx >= Len(sections) THEN <<>>
    ELSE HeaderFooter(sections[s_idx + 1].header, s_idx, "header")
         \o HeaderFooter(sections[s_idx + 1].footer, s_idx, "footer")
         \o iter_section_paragraphs(sections, s_idx + 1)

\* iter_blocks(doc): the body paragraphs, the body tables, the sections
iter_blocks(doc) ==
    ParagraphsFrom(doc.paragraphs, 0, "paragraph",
                   Location("body", "None", "None", "None", "None", "None", "None"),
                   <<"body">>)
    \o TablesFrom(doc.tables, 0,
                  Location("body", "None", "None", "None", "None", "None", "None"),
                  <<"body">>)
    \o iter_section_paragraphs(doc.sections, 0)

\* iter_text_containers(doc)
iter_text_containers(doc) == iter_blocks(doc)

\* location_map of fill_spans_in_docx: every container is stored under the
\* key of its location, a later one over an earlier one; location_map.get
\* gives the container stored last under the key
location_map_get(containers, location) ==
    containers[CHOOSE i \in 1..Len(containers) :
                  /\ containers[i].location = location
                  /\ \A j \in (i + 1)..Len(containers) : containers[j].location # location]

-----------------------------------------------------------------------------
(* Inputs of the commit engine *)

\* the texts a run of the template may hold
RunPool == {"", "_", "__", "data "}

\* the replacement texts handed to replace_span_across_runs
ReplacementPool == {"", "XYZ", "\nL"}

RECURSIVE SeqsUpTo(_, _)
SeqsUpTo(S, n) ==
    IF n = 0 THEN {<<>>}
    ELSE LET shorter == SeqsUpTo(S, n - 1)
         IN  shorter \cup {Append(q, x) : q \in {p \in shorter : Len(p) = n - 1}, x \in S}

\* the paragraphs of the template: every run built from its text
Paragraphs ==
    {[i \in 1..Len(q) |-> SetRunText(q[i])] : q \in SeqsUpTo(RunPool, MaxRuns)}

NoCall == [op |-> "none"]

\* no map_field_spans call is under way
MapIdle == map_input = [given |-> FALSE] /\ map_result = [done |-> FALSE]

\* no commit is under way
FillIdle ==
    /\ runs = <<>> /\ siblings = <<>> /\ field_spans = <<>>
    /\ call = NoCall /\ ret = "none"

\* no composite_map call is under way
SolveIdle == solve_input = [given |-> FALSE] /\ solve_result = [stage |-> "none"]

\* no run_pipeline call is under way
PipeIdle == pipeline = [given |-> FALSE] /\ state = InitialState

\* what a commit leaves alone
FillFrame == UNCHANGED <<mapVars, solveVars, pipeVars>>

\* the template as the pipeline hands it to the commit engine: extract_field_spans
\* has run on it
FillInit ==
    /\ MapIdle
    /\ SolveIdle
    /\ PipeIdle
    /\ runs \in Paragraphs
    /\ siblings = <<>>
    /\ field_spans = extract_container_spans(runs, BodyLocation(0))
    /\ call = NoCall
    /\ ret = "none"

\* a caller invokes replace_span_across_runs(paragraph, start, end, replacement)
ReplaceSpan ==
    /\ call = NoCall
    /\ \E span_start \in -1..(Len(ParagraphText(runs)) + 1),
          span_end \in -1..(Len(ParagraphText(runs)) + 1),
          replacement \in ReplacementPool :
          \E r \in {replace_span_across_runs(runs, span_start, span_end, replacement)} :
             /\ runs' = r.runs
             /\ ret' = r.ok
             /\ call' = [op |-> "replace", before |-> runs, span_start |-> span_start,
                         span_end |-> span_end, replacement |-> replacement]
    /\ UNCHANGED <<siblings, field_spans>>
    /\ FillFrame

\* the data record handed to fill_spans_in_docx
FillData ==
    ("Nume" :> StrVal("Ion Pop"))
    @@ ("Data" :> StrVal("2024-01-31"))
    @@ ("Note" :> StrVal("L1\nL2\nL3"))
    @@ ("Suma" :> NumVal("100"))
    @@ ("Gol" :> StrVal(""))

\* the expected types a caller may hand over for a span
FillExpected == {"None", "DURATION_DAYS", "PERSON_NAME"}

\* fill_spans_in_docx(doc, spans, mapping, data_norm, computed_values,
\* expected_types) on the template, with the spans extract_field_spans found in it
FillSpans ==
    /\ call = NoCall
    /\ \E ids \in {{field_spans[i].span_id : i \in 1..Len(field_spans)}} :
         \E mapping \in [ids -> DOMAIN FillData \cup {"None", "__computed__"}],
            expected_types \in [ids -> FillExpected],
            computed_values \in {[id \in ids |-> StrVal("7")]} :
            \E r \in {fill_spans_in_docx(runs, field_spans, mapping, FillData,
                                         computed_values, expected_types)} :
               /\ runs' = r.runs
               /\ siblings' = r.siblings
               /\ ret' = [filled |-> r.filled, suspicious |-> r.suspicious,
                          fatal |-> r.fatal, order |-> r.order]
               /\ call' = [op |-> "fill", before |-> runs,
                           mapping |-> mapping, data_norm |-> FillData,
                           computed_values |-> computed_values,
                           expected_types |-> expected_types]
    /\ UNCHANGED field_spans
    /\ FillFrame

FillNext == ReplaceSpan \/ FillSpans

Spec == FillInit /\ [][FillNext]_vars

-----------------------------------------------------------------------------
(* Inputs of the extraction passes *)

\* the run texts of the containers the two extraction passes read: blanks of
\* every kind, and pieces that join into blanks across runs
ExtractRunPool ==
    {"", "_", "__", "____/____", "/____", "...", ".", "|_|", "[ ]", "a "}

\* the containers: every run built from its text
ExtractParagraphs ==
    {[i \in 1..Len(q) |-> SetRunText(q[i])] : q \in SeqsUpTo(ExtractRunPool, MaxRuns)}

\* Location of a paragraph of a table cell, as _location_to_dict gives it;
\* table_idx is held in digits, beside the "None" of a body paragraph
CellLocation(t_idx, p_idx) ==
    [type |-> "body", table_idx |-> ToString(t_idx), paragraph_idx |-> p_idx]

\* the place of a container: the body, or a cell of the first table
ExtractLocation(in_table) == IF in_table THEN CellLocation(0, 0) ELSE BodyLocation(0)

\* a container of the template, read by neither pass yet
ExtractInit ==
    /\ MapIdle
    /\ SolveIdle
    /\ PipeIdle
    /\ runs \in ExtractParagraphs
    /\ siblings = <<>>
    /\ field_spans = <<>>
    /\ call = NoCall
    /\ ret = "none"

\* extract_field_spans reads the container
ExtractFieldSpans ==
    /\ call = NoCall
    /\ \E in_table \in BOOLEAN :
          /\ field_spans' = extract_container_spans(runs, ExtractLocation(in_table))
          /\ call' = [op |-> "extract", location |-> ExtractLocation(in_table)]
    /\ UNCHANGED <<runs, siblings, ret>>
    /\ FillFrame

\* extract_anchors reads the container: _find_placeholder_spans on its text
FindPlaceholderSpans ==
    /\ call = NoCall
    /\ ret' = find_placeholder_spans(ParagraphText(runs))
    /\ call' = [op |-> "placeholders"]
    /\ UNCHANGED <<runs, siblings, field_spans>>
    /\ FillFrame

ExtractNext == ExtractFieldSpans \/ FindPlaceholderSpans

SpecExtract == ExtractInit /\ [][ExtractNext]_vars

-----------------------------------------------------------------------------
(* Inputs of the traversal *)

\* the paragraphs of a cell, the cells of a row, the tables of a part and
\* the depth of tables within cells
MaxCellParagraphs == 1

MaxCols == 2

MaxTables == 2

MaxNesting == 1

RECURSIVE CellsAt(_)
RECURSIVE TablesAt(_)

\* the cells that hold tables nested to the given depth at most
CellsAt(depth) ==
    {[paragraphs |-> n, tables |-> ts] :
        n \in 1..MaxCellParagraphs,
        ts \in IF depth = 0 THEN {<<>>} ELSE SeqsUpTo(TablesAt(depth - 1), 1)}

\* the tables of one row whose cells are such cells
TablesAt(depth) ==
    {<<row>> : row \in SeqsUpTo(CellsAt(depth), MaxCols) \ {<<>>}}

\* a document with no section, or with one section whose header and footer
\* hold a paragraph each and the header a table at most
SectionPool ==
    {<<>>}
    \cup {<<[header |-> [paragraphs |-> 1, tables |-> ts],
             footer |-> [paragraphs |-> 1, tables |-> <<>>]]>> :
            ts \in SeqsUpTo(TablesAt(0), 1)}

TreePool ==
    {[paragraphs |-> n, tables |-> ts, sections |-> ss] :
        n \in 0..1, ts \in SeqsUpTo(TablesAt(MaxNesting), MaxTables), ss \in SectionPool}

\* a document has been opened
TraverseInit ==
    /\ MapIdle
    /\ SolveIdle
    /\ PipeIdle
    /\ runs = <<>>
    /\ siblings = <<>>
    /\ field_spans = <<>>
    /\ \E doc \in TreePool : call = [op |-> "open", doc |-> doc]
    /\ ret = "none"

\* the extraction step walks the document: iter_text_containers(doc)
IterTextContainers ==
    /\ call.op = "open"
    /\ ret' = iter_text_containers(call.doc)
    /\ call' = [op |-> "traverse", doc |-> call.doc]
    /\ UNCHANGED <<runs, siblings, field_spans>>
    /\ FillFrame

\* the commit step walks the document again and looks up, for a span of
\* every container, the container of the span's location
LookupContainers ==
    /\ call.op = "traverse"
    /\ \E containers \in {iter_text_containers(call.doc)} :
          ret' = [i \in 1..Len(ret) |->
                     [extracted_from |-> ret[i].path,
                      location |-> ret[i].location,
                      container |-> location_map_get(containers, ret[i].location).path]]
    /\ call' = [op |-> "lookup", doc |-> call.doc]
    /\ UNCHANGED <<runs, siblings, field_spans>>
    /\ FillFrame

TraverseNext == IterTextContainers \/ LookupContainers

SpecTraverse == TraverseInit /\ [][TraverseNext]_vars

-----------------------------------------------------------------------------
(* Inputs of the span mapper *)

\* the fuzzy ratios rapidfuzz may give a context and a key
RatioLevels == {40, 100}

\* the sequences of distinct elements of S, of length 1..n: the key orders
\* of the data records
DistinctSeqs(S, n) ==
    {q \in SeqsUpTo(S, n) : Len(q) >= 1 /\ \A i, j \in 1..Len(q) : i # j => q[i] # q[j]}

\* the orders the span_id hashes of n spans may stand in
IdOrders(n) == {q \in [1..n -> 1..n] : \A i, j \in 1..n : i # j => q[i] # q[j]}

MapInit ==
    /\ FillIdle
    /\ SolveIdle
    /\ PipeIdle
    /\ map_result = [done |-> FALSE]
    /\ \E doc \in DocPool, data_keys \in DistinctSeqs(DOMAIN KeyValue, MaxDataKeys) :
          \E spans \in {PoolSpans[doc]}, keys \in {Range(data_keys)} :
             \E llm \in {"no_model"} \cup keys,
                id_order \in IdOrders(Len(spans)),
                ratio \in [1..Len(spans) -> [keys -> RatioLevels]] :
                map_input = [given |-> TRUE, spans |-> spans, data_keys |-> data_keys,
                             data_norm |-> [k \in keys |-> KeyValue[k]],
                             llm |-> llm, id_order |-> id_order, ratio |-> ratio]

\* the pipeline's map_spans node calls map_field_spans(spans, data_norm, model)
MapSpans ==
    /\ map_input.given
    /\ ~map_result.done
    /\ map_result' = [done |-> TRUE,
                      out |-> map_field_spans(map_input.spans, map_input.data_keys,
                                              map_input.data_norm, map_input.llm,
                                              map_input.id_order, map_input.ratio)]
    /\ UNCHANGED <<map_input, fillVars, solveVars, pipeVars>>

MapNext == MapSpans

SpecMapSpans == MapInit /\ [][MapNext]_vars

-----------------------------------------------------------------------------
(* Inputs of the anchor mapper *)

\* the templates handed to extract_anchors: their body paragraphs
AnchorDocPool ==
    {<<"Subsemnatul ____, reprezentant al ____">>,
     <<"Subsemnatul ____, reprezentant al\nofertantului ____">>,
     <<"Catre ____ data ____">>,
     <<"Operator economic ____", "", "", "Data ____">>,
     <<"Lista ____">>}

\* the keys a data record may hold for the anchor mapper, each with its value
AnchorKeyValue ==
    ("Operator" :> StrVal("ACME SRL"))
    @@ ("Director" :> StrVal("Ion Pop"))
    @@ ("Data" :> StrVal("2024-01-31"))
    @@ ("Termen" :> StrVal("2024-01-31"))
    @@ ("Lista" :> ListVal)

\* llm_suggest_candidates' result: one suggestion for every anchor named
SuggestionsOf(named, confidence) ==
    [aid \in {a \in DOMAIN named : named[a] # "None"} |->
        <<[key |-> named[aid], confidence |-> confidence]>>]

SolveInit ==
    /\ FillIdle
    /\ MapIdle
    /\ PipeIdle
    /\ solve_result = [stage |-> "none"]
    /\ \E doc \in AnchorDocPool, data_keys \in DistinctSeqs(DOMAIN AnchorKeyValue, MaxDataKeys) :
          \E anchors \in {extract_anchors(doc)}, keys \in {Range(data_keys)} :
             \E ids \in {{anchors[i].anchor_id : i \in 1..Len(anchors)}} :
                \E ratio \in [ids -> [keys -> RatioLevels]],
                   named \in [ids -> keys \cup {"None"}],
                   confidence \in LlmConfidences :
                   solve_input = [given |-> TRUE, template |-> doc, anchors |-> anchors,
                                  data_keys |-> data_keys,
                                  data_norm |-> [k \in keys |-> AnchorKeyValue[k]],
                                  ratio |-> ratio,
                                  llm_candidates |-> SuggestionsOf(named, confidence)]

\* composite_map calls _build_candidates(anchors, data_norm, data_keys, llm_candidates)
BuildCandidates ==
    /\ solve_input.given
    /\ solve_result.stage = "none"
    /\ solve_result' = [stage |-> "candidates",
                        candidates |-> CandidatesOf(solve_input.anchors, 1,
                                                    solve_input.data_keys,
                                                    solve_input.data_norm,
                                                    solve_input.ratio,
                                                    solve_input.llm_candidates)]
    /\ UNCHANGED <<solve_input, fillVars, mapVars, pipeVars>>

\* composite_map calls solve_global_mapping(anchors, candidates)
SolveGlobalMapping ==
    /\ solve_result.stage = "candidates"
    /\ \E solved \in {solve_global_mapping(solve_input.anchors, solve_result.candidates)} :
          solve_result' = [stage |-> "solved",
                           candidates |-> solve_result.candidates,
                           mapping_final |-> solved.mapping_final,
                           stats |-> [conflicts_found |-> solved.conflicts_found,
                                      repairs_made |-> solved.repairs_made,
                                      role_clusters_detected |-> solved.role_clusters_detected,
                                      role_repairs_made |-> solved.role_repairs_made]]
    /\ UNCHANGED <<solve_input, fillVars, mapVars, pipeVars>>

SolveNext == BuildCandidates \/ SolveGlobalMapping

SpecSolve == SolveInit /\ [][SolveNext]_vars

-----------------------------------------------------------------------------
(* solve_global_mapping taken one step at a time: the greedy assignment,   *)
(* every round of the repair loop, the role patterns                       *)

\* the keys of the data records of the repair rounds: one more names the
\* signatory's representative
RepairKeyValue == AnchorKeyValue @@ ("Reprezentant" :> StrVal("Ion Pop"))

\* the templates of the repair rounds: one more holds a penalty clause
RepairDocPool == AnchorDocPool \cup {<<"Penalitati ____ % pe zi">>}

\* the calls of composite_map without a language model: llm_candidates = {}
RepairInit ==
    /\ FillIdle
    /\ MapIdle
    /\ PipeIdle
    /\ solve_result = [stage |-> "none"]
    /\ \E doc \in RepairDocPool, data_keys \in DistinctSeqs(DOMAIN RepairKeyValue, MaxDataKeys) :
          \E anchors \in {extract_anchors(doc)}, keys \in {Range(data_keys)} :
             \E ratio \in [{anchors[i].anchor_id : i \in 1..Len(anchors)} -> [keys -> RatioLevels]] :
                solve_input = [given |-> TRUE, template |-> doc, anchors |-> anchors,
                               data_keys |-> data_keys,
                               data_norm |-> [k \in keys |-> RepairKeyValue[k]],
                               ratio |-> ratio,
                               llm_candidates |-> <<>>]

\* a loop that is left after its last round only
LoopLeft_LastRoundOnly(conflicts, repaired_any, rounds) == rounds >= RepairPasses

\* for _ in range(3) is left by a break (no conflict, no repair) or after
\* its last round
LoopLeft(conflicts, repaired_any, rounds) ==
    conflicts = {} \/ ~repaired_any \/ rounds >= RepairPasses

\* the greedy assignment in stability order; no round has begun
GreedyAssignment ==
    /\ solve_result.stage = "candidates"
    /\ \E st \in {GreedyAssign([mapping_final |-> <<>>, chosen_scores |-> <<>>,
                                conflicts_found |-> 0, repairs_made |-> 0,
                                role_clusters_detected |-> 0, role_repairs_made |-> 0],
                               OrderBy(DOMAIN solve_result.candidates,
                                       [aid \in DOMAIN solve_result.candidates |->
                                           StabilityOf(solve_result.candidates[aid])],
                                       -1),
                               solve_result.candidates)} :
          solve_result' = [stage |-> "repairing",
                           candidates |-> solve_result.candidates,
                           st |-> st,
                           rounds |-> 0,
                           unique_conflicts |-> <<>>,
                           before |-> st,
                           repaired_any |-> FALSE]
    /\ UNCHANGED <<solve_input, fillVars, mapVars, pipeVars>>

\* one round of for _ in range(3): the conflicts of the current mapping,
\* their repair in ascending order of (chosen score, anchor id); the loop is
\* left when there is no conflict, when no repair was made, or after the
\* last round
ConflictRound ==
    /\ solve_result.stage = "repairing"
    /\ solve_result.rounds < RepairPasses
    /\ \E conflicts \in {TypeCollisions(solve_result.st.mapping_final, solve_result.candidates)
                         \cup SectionConflicts(solve_result.st.mapping_final,
                                               solve_input.anchors, solve_result.candidates)} :
          \E unique_conflicts \in {OrderBy(conflicts,
                                           ChosenOrZero(solve_result.st.chosen_scores, conflicts),
                                           1)} :
             \E rs \in {IF conflicts = {}
                        THEN [st |-> solve_result.st, repaired_any |-> FALSE]
                        ELSE RepairLoop([st |-> [solve_result.st EXCEPT !.conflicts_found = @ + 1],
                                         repaired_any |-> FALSE],
                                        unique_conflicts, solve_result.candidates)} :
                solve_result' = [stage |-> IF LoopLeft(conflicts, rs.repaired_any,
                                                       solve_result.rounds + 1)
                                           THEN "repaired" ELSE "repairing",
                                 candidates |-> solve_result.candidates,
                                 st |-> rs.st,
                                 rounds |-> solve_result.rounds + 1,
                                 unique_conflicts |-> unique_conflicts,
                                 before |-> solve_result.st,
                                 repaired_any |-> rs.repaired_any]
    /\ UNCHANGED <<solve_input, fillVars, mapVars, pipeVars>>

\* the role patterns of the clusters, and the return
EnforceRoles ==
    /\ solve_result.stage = "repaired"
    /\ \E solved \in {EnforceClusters(solve_result.st, solve_input.anchors,
                                      {solve_input.anchors[i].cluster_id :
                                          i \in 1..Len(solve_input.anchors)},
                                      solve_result.candidates)} :
          solve_result' = [stage |-> "solved",
                           candidates |-> solve_result.candidates,
                           mapping_final |-> solved.mapping_final,
                           stats |-> [conflicts_found |-> solved.conflicts_found,
                                      repairs_made |-> solved.repairs_made,
                                      role_clusters_detected |-> solved.role_clusters_detected,
                                      role_repairs_made |-> solved.role_repairs_made]]
    /\ UNCHANGED <<solve_input, fillVars, mapVars, pipeVars>>

ConflictNext == BuildCandidates \/ GreedyAssignment \/ ConflictRound \/ EnforceRoles

SpecRepair == RepairInit /\ [][ConflictNext]_vars

-----------------------------------------------------------------------------
(* Inputs of the role clusters: templates of many anchors *)

\* the most one-blank paragraphs that stand before the signatory's
MaxFillerBlanks == 8

\* n paragraphs of one labelled blank, two empty paragraphs after each
RECURSIVE Filler(_)
Filler(n) == IF n = 0 THEN <<>> ELSE <<"x____", "", "">> \o Filler(n - 1)

\* the templates: the paragraphs of one blank, every one a cluster of its
\* own, and the signatory's paragraph, whose two anchors make the last cluster
ClusterDocPool ==
    {Filler(n) \o <<"Subsemnatul ____, reprezentant al ____">> : n \in 0..MaxFillerBlanks}

\* a call of composite_map without a language model on such a template,
\* with one data key that every anchor matches alike
ClusterInit ==
    /\ FillIdle
    /\ MapIdle
    /\ PipeIdle
    /\ solve_result = [stage |-> "none"]
    /\ \E doc \in ClusterDocPool, key \in {"Data", "Director", "Reprezentant"}, level \in RatioLevels :
          \E anchors \in {extract_anchors(doc)} :
             solve_input = [given |-> TRUE, template |-> doc, anchors |-> anchors,
                            data_keys |-> <<key>>,
                            data_norm |-> (key :> RepairKeyValue[key]),
                            ratio |-> [aid \in {anchors[i].anchor_id : i \in 1..Len(anchors)} |->
                                          (key :> level)],
                            llm_candidates |-> <<>>]

SpecCluster == ClusterInit /\ [][SolveNext]_vars

-----------------------------------------------------------------------------
(* Inputs of the checkbox groups: extract_anchors taken one container at a *)
(* time                                                                    *)

\* the containers of a template
MaxContainers == 5

\* the text of a container: empty, a title, a blank with its label, a mark
\* of either kind with its option
ContainerTextPool == {"", "Titlu", "Nume ____", "[ ] Da", "|_| Nu"}

\* the containers of a template have been collected
CheckboxInit ==
    /\ MapIdle
    /\ SolveIdle
    /\ PipeIdle
    /\ runs = <<>>
    /\ siblings = <<>>
    /\ field_spans = <<>>
    /\ \E texts \in SeqsUpTo(ContainerTextPool, MaxContainers) :
          call = [op |-> "containers", texts |-> texts, next |-> 0]
    /\ ret = LoopStart

\* the loop of extract_anchors reads the next container
ReadContainer ==
    /\ call.op = "containers"
    /\ call.next < Len(call.texts)
    /\ ret' = ContainerStep(ret, call.texts[call.next + 1], call.next)
    /\ call' = [call EXCEPT !.next = @ + 1]
    /\ UNCHANGED <<runs, siblings, field_spans>>
    /\ FillFrame

\* past the last container: the open group is flushed and the anchors are
\* clustered
FlushAtEnd ==
    /\ call.op = "containers"
    /\ call.next = Len(call.texts)
    /\ \E ls \in {flush_checkbox_group(ret)} :
          ret' = [ls EXCEPT !.anchors = InFoundOrder(AssignClusters(SortByParagraph(ls.anchors)), 1)]
    /\ call' = [call EXCEPT !.op = "anchors"]
    /\ UNCHANGED <<runs, siblings, field_spans>>
    /\ FillFrame

CheckboxNext == ReadContainer \/ FlushAtEnd

SpecCheckbox == CheckboxInit /\ [][CheckboxNext]_vars

-----------------------------------------------------------------------------
(* The responses of the model: HFModel.generate returns a text, and        *)
(* json.loads makes a value of it or raises JSONDecodeError.  Numbers are  *)
(* held in hundredths.                                                     *)

JInvalid == [ty |-> "invalid"]

JNull == [ty |-> "null"]

JNum(n) == [ty |-> "num", n |-> n]

JStr(s) == [ty |-> "str", s |-> s]

JList(items) == [ty |-> "list", items |-> items]

JDict(d) == [ty |-> "dict", d |-> d]

\* the texts a model may answer a request for anchor candidates with
SuggestResponses ==
    ("" :> JInvalid)
    @@ ("{}" :> JDict(<<>>))
    @@ ("null" :> JNull)
    @@ ("[]" :> JList(<<>>))
    @@ ("{\"items\": 5}" :> JDict([items |-> JNum(500)]))
    @@ ("{\"items\": [1]}" :> JDict([items |-> JList(<<JNum(100)>>)]))
    @@ ("{\"items\": [{\"anchor_id\": \"A1\", \"candidates\": \"x\"}]}" :>
           JDict([items |-> JList(<<JDict([anchor_id |-> JStr("A1"),
                                           candidates |-> JStr("x")])>>)]))
    @@ ("{\"items\": [{\"anchor_id\": \"A1\", \"candidates\": [1, {\"key\": 5}]}]}" :>
           JDict([items |->
               JList(<<JDict([anchor_id |-> JStr("A1"),
                              candidates |->
                                  JList(<<JNum(100),
                                          JDict([key |-> JNum(500)])>>)])>>)]))
    @@ ("{\"items\": [{\"anchor_id\": \"A1\", \"candidates\": [{\"key\": \"Operator\", \"confidence\": 0.9}]}]}" :>
           JDict([items |->
               JList(<<JDict([anchor_id |-> JStr("A1"),
                              candidates |->
                                  JList(<<JDict([key |-> JStr("Operator"),
                                                 confidence |-> JNum(90)])>>)])>>)]))

\* the texts a model may answer a request for a span's key with
ChooseResponses ==
    ("" :> JInvalid)
    @@ ("{}" :> JDict(<<>>))
    @@ ("null" :> JNull)
    @@ ("[\"Nume\"]" :> JList(<<JStr("Nume")>>))
    @@ ("{\"best_key\": null}" :> JDict([best_key |-> JNull]))
    @@ ("{\"best_key\": [\"Nume\"], \"confidence\": 0.9}" :>
           JDict([best_key |-> JList(<<JStr("Nume")>>), confidence |-> JNum(90)]))
    @@ ("{\"best_key\": \"Altceva\", \"confidence\": 0.9}" :>
           JDict([best_key |-> JStr("Altceva"), confidence |-> JNum(90)]))
    @@ ("{\"best_key\": \"Nume\", \"confidence\": \"mare\"}" :>
           JDict([best_key |-> JStr("Nume"), confidence |-> JStr("mare")]))
    @@ ("{\"best_key\": \"Data expirarii\", \"confidence\": 0.9}" :>
           JDict([best_key |-> JStr("Data expirarii"), confidence |-> JNum(90)]))

\* json.loads(response) on the texts above
json_loads(response) ==
    IF response \in DOMAIN SuggestResponses THEN SuggestResponses[response]
    ELSE IF response \in DOMAIN ChooseResponses THEN ChooseResponses[response]
    ELSE JInvalid

\* payload.get(name) of a dict; None when the key is absent
JGet(payload, name) == IF name \in DOMAIN payload.d THEN payload.d[name] ELSE JNull

\* the items _parse_llm_candidates hands over for a loaded payload
ItemsOf(payload) ==
    IF payload.ty # "dict" THEN <<>>
    ELSE IF JGet(payload, "items").ty # "list" THEN <<>>
    ELSE JGet(payload, "items").items

\* _parse_llm_candidates(response)
parse_llm_candidates(response) == ItemsOf(json_loads(response))

\* str(item.get("anchor_id") or "") of an item that is a dict, its anchor_id
\* a string, null or absent
ItemAnchorId(item) ==
    IF JGet(item, "anchor_id").ty = "str" THEN JGet(item, "anchor_id").s ELSE ""

\* cleaned: the entries that are dicts with a key of the data record; a
\* confidence that is no number counts as 0.0
RECURSIVE Cleaned(_, _, _)
Cleaned(cand, i, data_keys) ==
    IF i > Len(cand) THEN <<>>
    ELSE (IF /\ cand[i].ty = "dict"
             /\ JGet(cand[i], "key").ty = "str"
             /\ JGet(cand[i], "key").s \in Range(data_keys)
          THEN <<[key |-> JGet(cand[i], "key").s,
                  confidence |-> IF JGet(cand[i], "confidence").ty = "num"
                                 THEN JGet(cand[i], "confidence").n ELSE 0]>>
          ELSE <<>>)
         \o Cleaned(cand, i + 1, data_keys)

\* top_k of llm_suggest_candidates
SuggestTopK == 5

\* the loop of llm_suggest_candidates over the parsed items: item.get() of
\* an item that is no dict raises AttributeError
RECURSIVE SuggestLoop(_, _, _, _)
SuggestLoop(out, parsed, i, data_keys) ==
    IF i > Len(parsed) \/ out.raised # "None" THEN out
    ELSE SuggestLoop(
             IF parsed[i].ty # "dict" THEN [out EXCEPT !.raised = "AttributeError"]
             ELSE IF \/ ItemAnchorId(parsed[i]) = ""
                     \/ JGet(parsed[i], "candidates").ty # "list"
             THEN out
             ELSE [out EXCEPT !.results =
                      (ItemAnchorId(parsed[i]) :>
                          TopOf(Cleaned(JGet(parsed[i], "candidates").items, 1, data_keys),
                                SuggestTopK))
                      @@ out.results],
             parsed, i + 1, data_keys)

\* llm_suggest_candidates(anchors, data_keys, heuristic_mapping, model) with a
\* model that answers response: the model is asked only when an anchor is
\* ambiguous, and then once, the anchors being fewer than batch_size
suggest_candidates(data_keys, base, response) ==
    IF ~\E aid \in DOMAIN base : base[aid].ambiguous
    THEN [raised |-> "None", results |-> <<>>]
    ELSE SuggestLoop([raised |-> "None", results |-> <<>>],
                     parse_llm_candidates(response), 1, data_keys)

\* best_key of _llm_choose_key for a loaded payload: a string or nothing
BestKeyOf(payload) ==
    IF payload.ty # "dict" THEN "None"
    ELSE IF JGet(payload, "best_key").ty # "str" THEN "None"
    ELSE JGet(payload, "best_key").s

\* what _llm_choose_key reads out of response, before the test against the
\* candidate keys; float(conf) of a confidence that is no number is caught
choose_key_response(response) == BestKeyOf(json_loads(response))

-----------------------------------------------------------------------------
(* Inputs of the calls that ask the model *)

\* token_set_ratio at one level for every anchor and key
RatioFor(ids, keys, level) == [i \in ids |-> [k \in keys |-> level]]

\* the responses that name a key, or null, in the place the schema of the
\* prompt asks for
WellFormedResponses ==
    {"{\"items\": [{\"anchor_id\": \"A1\", \"candidates\": [{\"key\": \"Operator\", \"confidence\": 0.9}]}]}",
     "{\"best_key\": \"Nume\", \"confidence\": \"mare\"}",
     "{\"best_key\": \"Data expirarii\", \"confidence\": 0.9}",
     "{\"best_key\": \"Altceva\", \"confidence\": 0.9}",
     "{\"best_key\": null}"}

\* composite_map or map_field_spans is called with a model that answers
\* response to every request
ResponseInit ==
    /\ FillIdle
    /\ PipeIdle
    /\ solve_result = [stage |-> "none"]
    /\ map_result = [done |-> FALSE]
    /\ \/ /\ map_input = [given |-> FALSE]
          /\ \E doc \in AnchorDocPool,
                data_keys \in DistinctSeqs(DOMAIN AnchorKeyValue, MaxDataKeys),
                level \in RatioLevels, response \in DOMAIN SuggestResponses :
                \E anchors \in {extract_anchors(doc)} :
                   solve_input =
                       [given |-> TRUE, template |-> doc, anchors |-> anchors,
                        data_keys |-> data_keys,
                        data_norm |-> [k \in Range(data_keys) |-> AnchorKeyValue[k]],
                        ratio |-> RatioFor({anchors[i].anchor_id : i \in 1..Len(anchors)},
                                           Range(data_keys), level),
                        response |-> response]
       \/ /\ solve_input = [given |-> FALSE]
          /\ \E doc \in DocPool, data_keys \in DistinctSeqs(DOMAIN KeyValue, MaxDataKeys),
                level \in RatioLevels, response \in DOMAIN ChooseResponses :
                \E spans \in {PoolSpans[doc]} :
                   \E id_order \in IdOrders(Len(spans)) :
                      map_input =
                          [given |-> TRUE, spans |-> spans, data_keys |-> data_keys,
                           data_norm |-> [k \in Range(data_keys) |-> KeyValue[k]],
                           id_order |-> id_order,
                           ratio |-> RatioFor(1..Len(spans), Range(data_keys), level),
                           response |-> response]

\* composite_map calls llm_suggest_candidates on its own heuristic pass
SuggestCandidates ==
    /\ solve_input.given
    /\ solve_result.stage = "none"
    /\ \E out \in {suggest_candidates(
                       solve_input.data_keys,
                       heuristic_map(solve_input.anchors, solve_input.data_keys,
                                     solve_input.data_norm, solve_input.ratio),
                       solve_input.response)} :
          solve_result' = IF out.raised # "None"
                          THEN [stage |-> "raised", error |-> out.raised]
                          ELSE [stage |-> "suggested", llm_candidates |-> out.results]
    /\ UNCHANGED <<solve_input, fillVars, mapVars, pipeVars>>

\* composite_map goes on with _build_candidates and solve_global_mapping
ComposeSuggested ==
    /\ solve_result.stage = "suggested"
    /\ \E composite \in {composite_map(solve_input.anchors, solve_input.data_keys,
                                       solve_input.data_norm, solve_input.ratio,
                                       solve_result.llm_candidates)} :
          solve_result' = [stage |-> "solved",
                           llm_candidates |-> solve_result.llm_candidates,
                           mapping_final |-> composite.mapping_final]
    /\ UNCHANGED <<solve_input, fillVars, mapVars, pipeVars>>

\* map_field_spans(spans, data_norm, model)
MapSpansAsking ==
    /\ map_input.given
    /\ ~map_result.done
    /\ map_result' = [done |-> TRUE,
                      out |-> map_field_spans(map_input.spans, map_input.data_keys,
                                              map_input.data_norm,
                                              choose_key_response(map_input.response),
                                              map_input.id_order, map_input.ratio)]
    /\ UNCHANGED <<map_input, fillVars, solveVars, pipeVars>>

ResponseNext == SuggestCandidates \/ ComposeSuggested \/ MapSpansAsking

SpecResponse == ResponseInit /\ [][ResponseNext]_vars

-----------------------------------------------------------------------------
(* Inputs of the pipeline *)

\* the most repair rounds a run is asked for
MaxRepairRounds == 1

\* the templates and data files handed to run_pipeline: the template's body
\* paragraph, the JSON object and the order of its keys
PipelineCases ==
    {[template |-> <<"Catre ____ data ____">>,
      data_raw |-> ("Data" :> StrVal("2024-01-31")), data_keys |-> <<"Data">>],
     [template |-> <<"Termen ____">>,
      data_raw |-> ("Termen" :> StrVal(" 30 zile ")), data_keys |-> <<"Termen">>],
     [template |-> <<"Subsemnatul ____ data ____">>,
      data_raw |-> ("Nume" :> StrVal("Ion Pop")), data_keys |-> <<"Nume">>],
     [template |-> <<"Operator economic suma ____">>,
      data_raw |-> ("Suma" :> StrVal("100 lei")), data_keys |-> <<"Suma">>],
     [template |-> <<"Data ____">>,
      data_raw |-> ("Data" :> StrVal("2024-01-31")), data_keys |-> <<"Data">>]}

AnchorRatio(level) ==
    RatioFor({state.anchors[i].anchor_id : i \in 1..Len(state.anchors)},
             Range(pipeline.data_keys), level)

\* run_pipeline(input_docx, input_json, output_docx, ..., dry_run, strict,
\* llm_enabled, repair_rounds) is called
PipelineInit ==
    /\ FillIdle
    /\ MapIdle
    /\ SolveIdle
    /\ state = InitialState
    /\ \E c \in PipelineCases, dry_run \in BOOLEAN, strict \in BOOLEAN,
          llm_enabled \in BOOLEAN, repair_rounds \in -1..MaxRepairRounds,
          level \in RatioLevels :
          pipeline = [given |-> TRUE, template |-> c.template, data_raw |-> c.data_raw,
                 data_keys |-> c.data_keys, dry_run |-> dry_run, strict |-> strict,
                 llm_enabled |-> llm_enabled, repair_rounds |-> repair_rounds,
                 ratio |-> level, pc |-> "normalize_data_node", round |-> 0,
                 saves |-> 0, pass_saves |-> 0, fills |-> 0, reports |-> 0,
                 exit |-> "None", document |-> <<>>]

PipeFrame == UNCHANGED <<fillVars, mapVars, solveVars>>

NormalizeDataNode ==
    /\ pipeline.given
    /\ pipeline.pc = "normalize_data_node"
    /\ state' = normalize_data_node(state, pipeline.data_raw)
    /\ pipeline' = [pipeline EXCEPT !.pc = "extract_anchors_node"]
    /\ PipeFrame

ExtractAnchorsNode ==
    /\ pipeline.given
    /\ pipeline.pc = "extract_anchors_node"
    /\ state' = extract_anchors_node(state, pipeline.template)
    /\ pipeline' = [pipeline EXCEPT !.pc = "heuristic_map_node"]
    /\ PipeFrame

\* the node of the graph, and the first step of a repair round
HeuristicMapNode ==
    /\ pipeline.given
    /\ pipeline.pc = "heuristic_map_node"
    /\ state' = heuristic_map_node(state, pipeline.data_keys, AnchorRatio(pipeline.ratio))
    /\ pipeline' = [pipeline EXCEPT !.pc = "llm_map_ambiguous_node"]
    /\ PipeFrame

\* composite_map asks the model whenever its own heuristic pass left an anchor
\* ambiguous; a repair round goes on to validate_merge
LlmMapAmbiguousNode ==
    /\ pipeline.given
    /\ pipeline.pc = "llm_map_ambiguous_node"
    /\ \E llm_candidates \in
              llm_suggest_candidates(state.anchors, pipeline.data_keys,
                                     heuristic_map(state.anchors, pipeline.data_keys,
                                                   state.data_norm, AnchorRatio(pipeline.ratio))) :
          state' = llm_map_ambiguous_node(
                       state,
                       composite_map(state.anchors, pipeline.data_keys, state.data_norm,
                                     AnchorRatio(pipeline.ratio), llm_candidates))
    /\ pipeline' = [pipeline EXCEPT !.pc = IF pipeline.round = 0 THEN "map_spans_node"
                                 ELSE "validate_merge_node"]
    /\ PipeFrame

\* the model is built only with llm_enabled
MapSpansNode ==
    /\ pipeline.given
    /\ pipeline.pc = "map_spans_node"
    /\ \E llm \in {"no_model"} \cup (IF pipeline.llm_enabled THEN Range(pipeline.data_keys) ELSE {}),
          id_order \in IdOrders(Len(state.field_spans)) :
          state' = map_spans_node(
                       state,
                       map_field_spans(state.field_spans, pipeline.data_keys, state.data_norm,
                                       llm, id_order,
                                       RatioFor(1..Len(state.field_spans),
                                                Range(pipeline.data_keys), pipeline.ratio)))
    /\ pipeline' = [pipeline EXCEPT !.pc = "validate_merge_node"]
    /\ PipeFrame

ValidateMergeNode ==
    /\ pipeline.given
    /\ pipeline.pc = "validate_merge_node"
    /\ state' = validate_merge_node(state, IF pipeline.round = 0 THEN HeuristicThreshold
                                           ELSE RepairHeuristicThreshold)
    /\ pipeline' = [pipeline EXCEPT !.pc = "fill_docx_node"]
    /\ PipeFrame

\* a SystemExit raised in the node ends the run
FillDocxNode ==
    /\ pipeline.given
    /\ pipeline.pc = "fill_docx_node"
    /\ \E out \in {fill_docx_node(state, pipeline.template, pipeline.dry_run)} :
          /\ state' = out.state
          /\ pipeline' = [pipeline EXCEPT
                        !.saves = @ + (IF out.saved THEN 1 ELSE 0),
                        !.pass_saves = @ + (IF out.saved THEN 1 ELSE 0),
                        !.document = IF out.saved THEN out.document ELSE @,
                        !.fills = @ + (IF out.exit = "None" THEN 1 ELSE 0),
                        !.exit = out.exit,
                        !.pc = IF out.exit = "None" THEN "report_node" ELSE "exited"]
    /\ PipeFrame

ReportNode ==
    /\ pipeline.given
    /\ pipeline.pc = "report_node"
    /\ state' = report_node(state, pipeline.data_keys)
    /\ pipeline' = [pipeline EXCEPT !.reports = @ + 1, !.pc = "repair_loop"]
    /\ PipeFrame

\* for _ in range(max(0, int(repair_rounds))) with issues left: the next
\* round starts
RepairRound ==
    /\ pipeline.given
    /\ pipeline.pc = "repair_loop"
    /\ pipeline.round < Max(0, pipeline.repair_rounds)
    /\ Len(state.issues) > 0
    /\ pipeline' = [pipeline EXCEPT !.round = @ + 1, !.pass_saves = 0, !.pc = "heuristic_map_node"]
    /\ UNCHANGED state
    /\ PipeFrame

\* the loop is over or left by its break: raise SystemExit(2) or return result
EndPipeline ==
    /\ pipeline.given
    /\ pipeline.pc = "repair_loop"
    /\ ~(pipeline.round < Max(0, pipeline.repair_rounds) /\ Len(state.issues) > 0)
    /\ \E code \in {StrictExit(pipeline.strict, state.issues)} :
          pipeline' = [pipeline EXCEPT !.exit = code,
                             !.pc = IF code = "None" THEN "returned" ELSE "exited"]
    /\ UNCHANGED state
    /\ PipeFrame

PipelineNext ==
    \/ NormalizeDataNode
    \/ ExtractAnchorsNode
    \/ HeuristicMapNode
    \/ LlmMapAmbiguousNode
    \/ MapSpansNode
    \/ ValidateMergeNode
    \/ FillDocxNode
    \/ ReportNode
    \/ RepairRound
    \/ EndPipeline

SpecPipeline == PipelineInit /\ [][PipelineNext]_vars

-----------------------------------------------------------------------------
(* Inputs of a non-dry run taken span by span: the spans of one container  *)
(* are extracted, mapped and committed                                     *)

\* the texts of the container: blanks with their labels, and no text at all
SpanTextPool == {"", "Nume ____", "durata de ____ zile", "Nume ____ ____"}

\* the values a key of the data record may hold: a text, or null
SpanKeyValues ==
    ("Nume" :> {StrVal("Ion Pop"), NoneVal}) @@ ("Durata" :> {StrVal("30"), NoneVal})

\* the fuzzy ratios of the contexts of the spans and the keys
SpanRatioLevels == {0, 100}

\* a template of one container, in the body or in a cell of a table, and a
\* data record
SpanInit ==
    /\ MapIdle
    /\ SolveIdle
    /\ PipeIdle
    /\ \E text \in SpanTextPool : runs = <<SetRunText(text)>>
    /\ siblings = <<>>
    /\ field_spans = <<>>
    /\ \E in_table \in BOOLEAN, level \in SpanRatioLevels,
          data_keys \in DistinctSeqs(DOMAIN SpanKeyValues, MaxDataKeys) :
          \E data_norm \in [Range(data_keys) -> UNION {SpanKeyValues[k] : k \in DOMAIN SpanKeyValues}] :
             /\ \A k \in Range(data_keys) : data_norm[k] \in SpanKeyValues[k]
             /\ call = [op |-> "template", location |-> ExtractLocation(in_table),
                        data_keys |-> data_keys, data_norm |-> data_norm, level |-> level]
    /\ ret = "none"

\* _extract_anchors_node: extract_field_spans reads the container
ExtractSpansStep ==
    /\ call.op = "template"
    /\ field_spans' = extract_container_spans(runs, call.location)
    /\ call' = [call EXCEPT !.op = "extracted"]
    /\ UNCHANGED <<runs, siblings, ret>>
    /\ FillFrame

\* _map_spans_node without a model: map_field_spans maps the spans and lists
\* the unmatched ones
MapSpansStep ==
    /\ call.op = "extracted"
    /\ \E id_order \in IdOrders(Len(field_spans)) :
          \E result \in {map_field_spans(field_spans, call.data_keys, call.data_norm,
                                         "no_model", id_order,
                                         RatioFor(1..Len(field_spans), Range(call.data_keys),
                                                  call.level))} :
             ret' = [mapping |-> result.mapping,
                     computed_values |-> result.computed_values,
                     expected_types |-> result.expected_types,
                     unmatched |-> unmatched_spans(field_spans, result.mapping)]
    /\ call' = [call EXCEPT !.op = "mapped"]
    /\ UNCHANGED <<runs, siblings, field_spans>>
    /\ FillFrame

\* _fill_docx_node, not a dry run: fill_spans_in_docx commits the spans
FillSpansStep ==
    /\ call.op = "mapped"
    /\ \E out \in {fill_spans_in_docx(runs, field_spans, ret.mapping, call.data_norm,
                                      ret.computed_values, ret.expected_types)} :
          /\ runs' = out.runs
          /\ siblings' = out.siblings
          /\ ret' = [mapping |-> ret.mapping, unmatched |-> ret.unmatched,
                     filled |-> out.filled, committed |-> out.order, fatal |-> out.fatal]
    /\ call' = [call EXCEPT !.op = "filled"]
    /\ UNCHANGED field_spans
    /\ FillFrame

SpanNext == ExtractSpansStep \/ MapSpansStep \/ FillSpansStep

SpecSpans == SpanInit /\ [][SpanNext]_vars

-----------------------------------------------------------------------------
(* Inputs of the checkbox fills of a non-dry run *)

\* the paragraphs of a template
MaxCheckboxParagraphs == 3

\* the text of a paragraph: an option with its mark of either kind, or a title
CheckboxLinePool == {"|_| Da", "|_| Nu", "[ ] Da", "Titlu"}

\* the texts of the options of these paragraphs
OptionPool == {"Da", "Nu"}

\* the data records: the answer as a text, or as a number
AnswerPool == {("Raspuns" :> StrVal("Da")), ("Raspuns" :> NumVal("1"))}

\* a template and a data record are given
CheckboxFillInit ==
    /\ MapIdle
    /\ SolveIdle
    /\ PipeIdle
    /\ runs = <<>>
    /\ siblings = <<>>
    /\ field_spans = <<>>
    /\ \E template \in SeqsUpTo(CheckboxLinePool, MaxCheckboxParagraphs) \ {<<>>},
          data \in AnswerPool, ratio \in [OptionPool -> RatioLevels] :
          call = [op |-> "run_pipeline", template |-> template, data |-> data,
                  ratio |-> ratio]
    /\ ret = "none"

\* _extract_anchors_node opens the template and keeps the anchors, whose
\* options hold the containers of the document it opened
ExtractAnchorsStep ==
    /\ call.op = "run_pipeline"
    /\ ret' = [anchors |-> InFoundOrder(AssignClusters(SortByParagraph(
                               ContainerLoop(LoopStart, call.template, 0).anchors)), 1),
               extracted |-> call.template]
    /\ call' = [call EXCEPT !.op = "extract_anchors_node"]
    /\ UNCHANGED <<runs, siblings, field_spans>>
    /\ FillFrame

\* the mapping nodes leave mapping_final: some of the anchors have the key
MapAnchorsStep ==
    /\ call.op = "extract_anchors_node"
    /\ \E mapped \in SUBSET {ret.anchors[i].anchor_id : i \in 1..Len(ret.anchors)} :
          ret' = [anchors |-> ret.anchors, extracted |-> ret.extracted,
                  mapping_final |-> [a \in mapped |-> "Raspuns"]]
    /\ call' = [call EXCEPT !.op = "validate_merge_node"]
    /\ UNCHANGED <<runs, siblings, field_spans>>
    /\ FillFrame

\* what _fill_docx_node leaves once the checkboxes are filled: a TypeError
\* leaves the node before doc.save, and a run that filled no checkbox
\* raises SystemExit after it
SavedOutcome(st, anchors, mapping_final) ==
    [anchors |-> anchors,
     mapping_final |-> mapping_final,
     extracted |-> st.extracted,
     opened |-> st.opened,
     saved |-> st.exit = "None",
     document |-> IF st.exit = "None" THEN st.opened ELSE <<>>,
     filled_checkboxes |-> st.filled,
     fills |-> st.fills,
     exit |-> IF st.exit # "None" THEN st.exit
              ELSE IF HasCheckboxAnchors(anchors) /\ st.filled = 0
                   THEN "CHECKBOX_GROUP anchors present but no checkboxes filled"
              ELSE "None"]

\* _fill_docx_node, not a dry run, on a template without blanks and tables:
\* the node opens the template again, fills the checkboxes and saves the
\* document it opened
FillCheckboxesStep ==
    /\ call.op = "validate_merge_node"
    /\ ret' = SavedOutcome(FillCheckboxes([extracted |-> ret.extracted,
                                           opened |-> call.template,
                                           filled |-> 0, fills |-> <<>>, exit |-> "None"],
                                          ret.anchors, call.data, ret.mapping_final,
                                          call.ratio),
                           ret.anchors, ret.mapping_final)
    /\ call' = [call EXCEPT !.op = "fill_docx_node"]
    /\ UNCHANGED <<runs, siblings, field_spans>>
    /\ FillFrame

CheckboxFillNext == ExtractAnchorsStep \/ MapAnchorsStep \/ FillCheckboxesStep

SpecCheckboxFill == CheckboxFillInit /\ [][CheckboxFillNext]_vars

-----------------------------------------------------------------------------
(* docx_io/fill_tables.py.  A table is the list of its rows, a row the     *)
(* list of the texts of its cells; a data record is a function of its      *)
(* keys, which stand in the order of the list keys.                        *)

\* _cell_text(cell)
cell_text(text) == JoinWith(SplitWs(text), " ")

\* _row_is_empty(row)
row_is_empty(row) == \A i \in 1..Len(row) : cell_text(row[i]) = ""

\* _header_map(row): the text of every column that has one
header_map(row) ==
    [idx \in {i - 1 : i \in {j \in 1..Len(row) : cell_text(row[j]) # ""}} |->
        cell_text(row[idx + 1])]

\* the key of a header in _match_columns: the key whose normal form is the
\* header's, the last such key winning, or the first key whose normal form
\* holds the header's or is held by it; "None" without one
MatchKey(norm_header, keys) ==
    IF \E i \in 1..Len(keys) : normalize_key(keys[i]) = norm_header
    THEN keys[CHOOSE i \in 1..Len(keys) :
                  /\ normalize_key(keys[i]) = norm_header
                  /\ \A j \in (i + 1)..Len(keys) : normalize_key(keys[j]) # norm_header]
    ELSE IF \E i \in 1..Len(keys) :
               \/ Contains(normalize_key(keys[i]), norm_header)
               \/ Contains(norm_header, normalize_key(keys[i]))
    THEN keys[CHOOSE i \in 1..Len(keys) :
                  /\ \/ Contains(normalize_key(keys[i]), norm_header)
                     \/ Contains(norm_header, normalize_key(keys[i]))
                  /\ \A j \in 1..(i - 1) :
                        /\ ~Contains(normalize_key(keys[j]), norm_header)
                        /\ ~Contains(norm_header, normalize_key(keys[j]))]
    ELSE "None"

\* _match_columns(headers, sample_row)
match_columns(headers, keys) ==
    [c \in {d \in DOMAIN headers : MatchKey(normalize_key(headers[d]), keys) # "None"} |->
        MatchKey(normalize_key(headers[c]), keys)]

\* the locals of _fill_table before its loop: the name filled is bound by
\* no assignment, filled_tables is; data_row_idx is -1 for None
FillTableStart(table) ==
    [table |-> table, filled_tables |-> 0, filled_bound |-> FALSE, filled |-> 0,
     data_row_idx |-> IF Len(table) > 1 THEN 1 ELSE -1, target |-> -1,
     targets |-> <<>>, raised |-> "None"]

\* filled += 1: the read of a local that is not bound raises
AddToFilled(st) ==
    IF st.filled_bound THEN [st EXCEPT !.filled = @ + 1]
    ELSE [st EXCEPT !.raised = "UnboundLocalError"]

\* return filled
ReturnFilled(st) ==
    IF st.filled_bound THEN st ELSE [st EXCEPT !.raised = "UnboundLocalError"]

\* the row a data record goes to: the next data row when it is empty, or a
\* clone of the template row appended to the table
TargetRow(st) ==
    IF /\ st.data_row_idx # -1 /\ st.data_row_idx < Len(st.table)
       /\ row_is_empty(st.table[st.data_row_idx + 1])
    THEN [st EXCEPT !.target = st.data_row_idx, !.data_row_idx = @ + 1,
                    !.targets = Append(@, st.data_row_idx)]
    ELSE [st EXCEPT !.table = Append(@, IF Len(st.table) > 1 THEN st.table[2] ELSE st.table[1]),
                    !.target = Len(st.table), !.targets = Append(@, Len(st.table))]

\* the columns of col_map in the order of col_map.items(): the order of
\* the cells of the header row
ColumnsOf(col_map) ==
    [i \in 1..Cardinality(DOMAIN col_map) |->
        SortedByStart({[start |-> c, end |-> c] : c \in DOMAIN col_map})[i].start]

\* the loop over col_map for one data record: _set_cell_text_preserve on the
\* cell of every column whose value is not None, and filled += 1
RECURSIVE WriteCells(_, _, _, _)
WriteCells(st, cols, item, col_map) ==
    IF Len(cols) = 0 \/ st.raised # "None" THEN st
    ELSE IF Get(item, col_map[Head(cols)]) = NoneVal
    THEN WriteCells(st, Tail(cols), item, col_map)
    ELSE WriteCells(AddToFilled([st EXCEPT !.table[st.target + 1][Head(cols) + 1] =
                                               Get(item, col_map[Head(cols)]).s]),
                    Tail(cols), item, col_map)

\* the loop over the data records, and the return
RECURSIVE FillRows(_, _, _, _)
FillRows(st, rows_data, i, col_map) ==
    IF st.raised # "None" THEN st
    ELSE IF i > Len(rows_data) THEN ReturnFilled(st)
    ELSE FillRows(WriteCells(TargetRow(st), ColumnsOf(col_map), rows_data[i], col_map),
                  rows_data, i + 1, col_map)

\* _fill_table(table, rows_data): nothing is written without data records,
\* rows or a matching column, and 0 is returned
fill_table(table, rows_data, keys) ==
    IF \/ Len(rows_data) = 0
       \/ Len(table) = 0
       \/ DOMAIN match_columns(header_map(table[1]), keys) = {}
    THEN FillTableStart(table)
    ELSE FillRows(FillTableStart(table), rows_data, 1,
                  match_columns(header_map(table[1]), keys))

\* what a caller of _fill_table has after the call: the rows of the table,
\* the value returned and the exception that left the call
Returned(st) ==
    [table |-> st.table, called |-> TRUE, targets |-> st.targets,
     returned |-> IF st.raised = "None" THEN st.filled ELSE 0,
     raised |-> st.raised]

\* fill_tables(doc, data) on a document of one table and data with one list
\* of records: the table is filled when its header has a text and matches a
\* column of the first record
fill_tables(table, rows_data, keys) ==
    IF \/ Len(table) = 0
       \/ DOMAIN header_map(table[1]) = {}
       \/ DOMAIN match_columns(header_map(table[1]), keys) = {}
    THEN [table |-> table, called |-> FALSE, targets |-> <<>>, returned |-> 0,
          raised |-> "None"]
    ELSE Returned(fill_table(table, rows_data, keys))

\* fill_tables_for_anchors(doc, anchors, data, mapping) on one anchor of
\* kind table with table_idx 0: the table is filled when the anchor is
\* mapped to the key of the list; the count is of the tables filled
fill_tables_for_anchors(table, rows_data, keys, mapped) ==
    IF ~mapped
    THEN [table |-> table, called |-> FALSE, targets |-> <<>>, returned |-> 0,
          raised |-> "None"]
    ELSE [Returned(fill_table(table, rows_data, keys)) EXCEPT
              !.returned = IF @ > 0 THEN 1 ELSE 0]

-----------------------------------------------------------------------------
(* Inputs of the table fills of a non-dry run *)

\* the data rows of a table under its header row
MaxDataRows == 2

\* the records of a list of the data
MaxRecords == 2

\* the header row of a table of two columns
HeaderRowPool == {<<"Nr", "Servicii">>, <<"Nr", "">>, <<"Obs", "">>,
                  <<"Nr crt", "Lista servicii">>}

\* a data row of the template: empty, or filled
DataRowPool == {<<"", "">>, <<"1", "x">>}

\* the keys of a record, in their order
RecordKeys == <<"nr", "servicii">>

\* the records: each value is given, or null
RecordPool == {("nr" :> n) @@ ("servicii" :> s) :
                   n \in {NumVal("1"), NoneVal}, s \in {StrVal("Paza"), NoneVal}}

\* a template with one table and data with one list of records are given;
\* the anchors of the template hold no table anchor, or one that
\* mapping_final maps to the key of the list, or one that it does not map
TableInit ==
    /\ MapIdle
    /\ SolveIdle
    /\ PipeIdle
    /\ runs = <<>>
    /\ siblings = <<>>
    /\ field_spans = <<>>
    /\ \E header \in HeaderRowPool, rows \in SeqsUpTo(DataRowPool, MaxDataRows),
          rows_data \in SeqsUpTo(RecordPool, MaxRecords) \ {<<>>},
          table_anchors \in {"none", "mapped", "unmapped"} :
          call = [op |-> "validate_merge_node", table |-> <<header>> \o rows,
                  rows_data |-> rows_data, table_anchors |-> table_anchors]
    /\ ret = "none"

\* what _fill_docx_node leaves once the tables are filled: an exception
\* leaves the node before doc.save
TableOutcome(out) ==
    [table |-> out.table, called |-> out.called, targets |-> out.targets,
     table_filled |-> out.returned, raised |-> out.raised,
     saved |-> out.raised = "None"]

\* _fill_docx_node, not a dry run, without table anchors: fill_tables, then
\* doc.save
FillTablesStep ==
    /\ call.op = "validate_merge_node"
    /\ call.table_anchors = "none"
    /\ ret' = TableOutcome(fill_tables(call.table, call.rows_data, RecordKeys))
    /\ call' = [call EXCEPT !.op = "fill_docx_node"]
    /\ UNCHANGED <<runs, siblings, field_spans>>
    /\ FillFrame

\* _fill_docx_node, not a dry run, with a table anchor:
\* fill_tables_for_anchors, then doc.save
FillTablesForAnchorsStep ==
    /\ call.op = "validate_merge_node"
    /\ call.table_anchors # "none"
    /\ ret' = TableOutcome(fill_tables_for_anchors(call.table, call.rows_data, RecordKeys,
                                                   call.table_anchors = "mapped"))
    /\ call' = [call EXCEPT !.op = "fill_docx_node"]
    /\ UNCHANGED <<runs, siblings, field_spans>>
    /\ FillFrame

TableNext == FillTablesStep \/ FillTablesForAnchorsStep

SpecTables == TableInit /\ [][TableNext]_vars

-----------------------------------------------------------------------------
(* Claims about replace_span_across_runs *)

CallInBounds ==
    /\ call.op = "replace"
    /\ Len(call.before) >= 1
    /\ 0 <= call.span_start
    /\ call.span_start < call.span_end
    /\ call.span_end <= Len(ParagraphText(call.before))

\* C1: for a paragraph with at least one run and offsets 0 <= start < end <= len(T),
\* the call returns True and the concatenated run text becomes T[0:start] + r + T[end:].
C1_ReplaceRewritesOnlyTheBlank ==
    CallInBounds =>
        /\ ret = TRUE
        /\ ParagraphText(runs) =
             Slice(ParagraphText(call.before), 0, call.span_start)
             \o call.replacement
             \o SliceFrom(ParagraphText(call.before), call.span_end)

\* a span that crosses a run boundary was replaced by a multi-line text
C1_Witness ==
    /\ CallInBounds
    /\ Len(call.before) >= 2
    /\ EndIdxOf(run_spans(call.before), call.span_end)
         > StartIdxOf(run_spans(call.before), call.span_start, 0)
    /\ Contains(call.replacement, "\n")
    /\ ret = TRUE

CallRejected ==
    /\ call.op = "replace"
    /\ \/ Len(call.before) = 0
       \/ call.span_start >= call.span_end
       \/ call.span_start < 0
       \/ call.span_end > Len(ParagraphText(call.before))

\* C2: with no runs, start >= end, start < 0 or end > len(T) the call returns False
\* and the text of every run is what it was.
C2_RejectedCallMutatesNothing ==
    CallRejected =>
        /\ ret = FALSE
        /\ Len(runs) = Len(call.before)
        /\ \A i \in 1..Len(runs) : RunText(runs[i]) = RunText(call.before[i])

\* a call whose end offset lies beyond the text of a non-empty paragraph
C2_Witness ==
    /\ call.op = "replace"
    /\ Len(call.before) >= 1
    /\ 0 <= call.span_start
    /\ call.span_start < call.span_end
    /\ call.span_end > Len(ParagraphText(call.before))
    /\ Len(ParagraphText(call.before)) > 0
    /\ ret = FALSE

\* the run that holds the character at offset pos of the paragraph before
\* the call
RunHolding(pos) ==
    CHOOSE idx \in 1..Len(call.before) :
        /\ RunSpanStart(call.before, idx) <= pos
        /\ pos < RunSpanStart(call.before, idx) + Len(RunText(call.before[idx]))

\* the text a run held before the call, from offset from of the paragraph
\* up to offset to
RunSlice(idx, from, to) ==
    Slice(RunText(call.before[idx]),
          Max(0, from - RunSpanStart(call.before, idx)),
          Max(0, to - RunSpanStart(call.before, idx)))

\* C17: a call that returns True keeps the number of runs, leaves every run
\* before the start run and after the end run as it was, empties every run
\* strictly between them, keeps in the start run the text it held before
\* start and in the end run the text it held from end on
C17_ReplaceKeepsRunsAroundSpan ==
    (call.op = "replace" /\ ret = TRUE) =>
        /\ Len(runs) = Len(call.before)
        /\ \A idx \in 1..Len(runs) :
              IF idx < RunHolding(call.span_start) \/ idx > RunHolding(call.span_end - 1)
              THEN runs[idx] = call.before[idx]
              ELSE IF idx > RunHolding(call.span_start) /\ idx < RunHolding(call.span_end - 1)
              THEN RunText(runs[idx]) = ""
              ELSE RunText(runs[idx]) =
                      (IF idx = RunHolding(call.span_start)
                       THEN RunSlice(idx, 0, call.span_start) \o call.replacement
                       ELSE "")
                      \o (IF idx = RunHolding(call.span_end - 1)
                          THEN RunSlice(idx, call.span_end, Len(ParagraphText(call.before)))
                          ELSE "")

\* a span from the first run into the third was replaced, a run with text
\* standing between them
C17_Witness ==
    /\ call.op = "replace"
    /\ ret = TRUE
    /\ Len(call.before) = 3
    /\ RunHolding(call.span_start) = 1
    /\ RunHolding(call.span_end - 1) = 3
    /\ RunText(call.before[2]) # ""
    /\ call.span_start > 0
    /\ call.span_end < Len(ParagraphText(call.before))

-----------------------------------------------------------------------------
(* Claims about fill_spans_in_docx *)

\* the value fill_spans_in_docx commits for a span of the last call; NoneVal
\* when the span is skipped
CallValue(span) ==
    LET key == GetName(call.mapping, span.span_id)
    IN  IF key \in {"None", ""} \/ span.blank_kind = "checkbox" THEN NoneVal
        ELSE IF key = "__computed__" THEN Get(call.computed_values, span.span_id)
        ELSE Get(call.data_norm, key)

\* the text that stands for a span once committed, given the text `after`
\* that follows the span at that moment: its value, or (mode "first_line")
\* only the first line of a multi-line value when the paragraph is nothing
\* but the placeholder
Committed(text, span, after, mode) ==
    LET v == CallValue(span)
    IN  IF v = NoneVal THEN span.raw_placeholder_text
        ELSE IF /\ mode = "first_line"
                /\ Contains(v.s, "\n")
                /\ Strip(Slice(text, 0, span.end_char) \o after)
                     = Strip(span.raw_placeholder_text)
             THEN Split(v.s, "\n")[1]
        ELSE v.s

\* the text from the start of span i on, with the spans i.. replaced
RECURSIVE SubstitutedFrom(_, _, _, _)
SubstitutedFrom(text, spans, i, mode) ==
    IF i > Len(spans) THEN ""
    ELSE LET next  == IF i = Len(spans) THEN Len(text) ELSE spans[i + 1].start_char
             after == Slice(text, spans[i].end_char, next)
                        \o SubstitutedFrom(text, spans, i + 1, mode)
         IN  Committed(text, spans[i], after, mode) \o after

Substituted(text, spans, mode) ==
    IF Len(spans) = 0 THEN text
    ELSE Slice(text, 0, spans[1].start_char) \o SubstitutedFrom(text, spans, 1, mode)

FillCompleted == call.op = "fill" /\ ret.fatal = "None"

StrictlyDescending(seq) == \A i \in 1..(Len(seq) - 1) : seq[i] > seq[i + 1]

\* C3 as stated: the spans are committed in descending start order and the
\* text becomes the original text with every span's range replaced by its value.
C3_EveryRangeReplacedByItsValue ==
    FillCompleted =>
        /\ StrictlyDescending(ret.order)
        /\ ParagraphText(runs) =
             Substituted(ParagraphText(call.before), field_spans, "whole")

\* C3 (amended): a completed fill commits the spans in descending start
\* order, and the text becomes the original text with every committed span's
\* range replaced by its value, whatever the lengths of the values; the one
\* exception is a value with line breaks committed when the paragraph is
\* nothing but the placeholder, which leaves only its first line in the
\* container.
C3_RangesReplacedFirstLineWhenAlone ==
    FillCompleted =>
        /\ StrictlyDescending(ret.order)
        /\ ParagraphText(runs) =
             Substituted(ParagraphText(call.before), field_spans, "first_line")

\* two spans of one container were committed with values whose lengths
\* differ from their placeholders'
C3_Witness ==
    /\ FillCompleted
    /\ ret.filled = 2
    /\ Len(field_spans) = 2
    /\ \A i \in 1..2 :
          Len(CallValue(field_spans[i]).s) # Len(field_spans[i].raw_placeholder_text)
    /\ Len(CallValue(field_spans[1]).s) # Len(CallValue(field_spans[2]).s)

\* the spans committed with a value of several lines into a paragraph that
\* is nothing but their placeholder
AloneSpans ==
    {i \in 1..Len(field_spans) :
        /\ CallValue(field_spans[i]) # NoneVal
        /\ Contains(CallValue(field_spans[i]).s, "\n")
        /\ placeholder_only(call.before, field_spans[i].raw_placeholder_text)}

\* the lines of a span's value after the first
ExtraLines(i) == Tail(Split(CallValue(field_spans[i]).s, "\n"))

Reversed(seq) == [i \in 1..Len(seq) |-> seq[Len(seq) + 1 - i]]

\* C16: a value of several lines committed into a paragraph that is nothing
\* but the placeholder leaves its first line in the paragraph and its other
\* lines as the sibling paragraphs after it, in the order of the lines; in
\* every other case no sibling is made and the whole value, line breaks
\* included, stands in the paragraph
C16_ExtraLinesFollowInOrder ==
    FillCompleted =>
        /\ \A i \in AloneSpans :
              /\ siblings = ExtraLines(i)
              /\ ParagraphText(runs) =
                    Substituted(ParagraphText(call.before), field_spans, "first_line")
        /\ AloneSpans = {} =>
              /\ siblings = <<>>
              /\ ParagraphText(runs) =
                    Substituted(ParagraphText(call.before), field_spans, "whole")

\* what holds of the siblings: they stand in the reverse order of the lines
C16_ExtraLinesFollowReversed ==
    FillCompleted =>
        /\ \A i \in AloneSpans :
              /\ siblings = Reversed(ExtraLines(i))
              /\ ParagraphText(runs) =
                    Substituted(ParagraphText(call.before), field_spans, "first_line")
        /\ AloneSpans = {} =>
              /\ siblings = <<>>
              /\ ParagraphText(runs) =
                    Substituted(ParagraphText(call.before), field_spans, "whole")

-----------------------------------------------------------------------------
(* Claims about map_field_spans *)

Mapped == map_result.done

\* the spans map_field_spans gave a key of the data record
AssignedSpans ==
    {i \in 1..Len(map_input.spans) :
        GetName(map_result.out.mapping, map_input.spans[i].span_id)
            \notin {"None", "__computed__"}}

AssignedKey(i) == map_result.out.mapping[map_input.spans[i].span_id]

\* C4: the value of every key map_field_spans assigns to a span matches the
\* type infer_slot_type gives the span.
C4_AssignedValuesMatchInferredType ==
    Mapped =>
        \A i \in AssignedSpans :
            value_matches_type(map_input.data_norm[AssignedKey(i)],
                               infer_slot_type(map_input.spans[i]))

\* two spans whose contexts are unrelated (token Jaccard below 0.3) and whose
\* candidate lists both rank the same non-repeatable key first
CompeteForKey(i, j, key) ==
    /\ i # j
    /\ jaccard(tokens(SpanContext(map_input.spans[i])),
               tokens(SpanContext(map_input.spans[j]))) * 10 < 3 * ScoreUnit
    /\ ~IsRepeatable(key)
    /\ \A n \in {i, j} :
          /\ Len(map_result.out.candidates[n]) > 0
          /\ map_result.out.candidates[n][1].key = key

\* C5: of two spans with unrelated contexts that both rank the same
\* non-repeatable key first, only one is assigned that key.
C5_OneSpanPerContestedKey ==
    Mapped =>
        \A i, j \in 1..Len(map_input.spans), key \in DOMAIN map_input.data_norm :
            CompeteForKey(i, j, key) =>
                ~(/\ GetName(map_result.out.mapping, map_input.spans[i].span_id) = key
                  /\ GetName(map_result.out.mapping, map_input.spans[j].span_id) = key)

-----------------------------------------------------------------------------
(* Claims about solve_global_mapping *)

Solved == solve_result.stage = "solved"

\* the anchor of an id
AnchorOf(aid) ==
    CHOOSE a \in Range(solve_input.anchors) : a.anchor_id = aid

\* the clusters tagged person-then-organization that hold two anchors, each
\* as its two anchor ids in cluster order
PersonThenOrgPairs ==
    {OrderBy({a.anchor_id : a \in items},
             [aid \in {a.anchor_id : a \in items} |-> ParagraphKey(AnchorOf(aid))], 1) :
        items \in {ClusterItems(solve_input.anchors, cid) :
                      cid \in {a.cluster_id : a \in
                                  {b \in Range(solve_input.anchors) :
                                      b.role_pattern = "PERSON_THEN_ORG"}}} \cap
                  {s \in SUBSET Range(solve_input.anchors) : Cardinality(s) = 2}}

\* the anchor ends with a key of one of the key types when a candidate of
\* such a type exists, and with no key otherwise
KeyOfTypeOrEvicted(aid, key_types) ==
    IF \E i \in 1..Len(GetList(solve_result.candidates, aid)) :
           infer_key_type(solve_result.candidates[aid][i].key) \in key_types
    THEN /\ aid \in DOMAIN solve_result.mapping_final
         /\ infer_key_type(solve_result.mapping_final[aid]) \in key_types
    ELSE aid \notin DOMAIN solve_result.mapping_final

\* C6: for a cluster tagged PERSON_THEN_ORG with two anchors, after
\* solve_global_mapping the first anchor holds a person-typed key and the
\* second an organization-typed key, whatever the similarity ranking; an
\* anchor with no candidate of the required type holds no key.
C6_PersonThenOrgKeysTyped ==
    Solved =>
        \A pair \in PersonThenOrgPairs :
            /\ KeyOfTypeOrEvicted(pair[1], {"PERSON_NAME"})
            /\ KeyOfTypeOrEvicted(pair[2], {"ORG_NAME", "ORG_ADDRESS"})

\* C7: every assignment of the final mapping pairs an anchor field type and
\* a key type that _type_compatible declares compatible.
C7_AssignmentsTypeCompatible ==
    Solved =>
        \A aid \in DOMAIN solve_result.mapping_final :
            type_compatible(infer_field_type(AnchorOf(aid)),
                            infer_key_type(solve_result.mapping_final[aid]))

\* the anchors whose best candidate total is below threshold_global
BelowFloor ==
    {aid \in DOMAIN solve_result.candidates :
        /\ Len(solve_result.candidates[aid]) > 0
        /\ solve_result.candidates[aid][1].total < Hundredths(ThresholdGlobal)}

\* C12: an anchor whose best candidate total is below the acceptance floor
\* threshold_global is absent from the final mapping solve_global_mapping
\* returns (and so is unresolved for the steps that follow)
C12_BelowFloorAnchorsUnassigned ==
    Solved => \A aid \in BelowFloor : aid \notin DOMAIN solve_result.mapping_final

\* C18: in the candidate lists _build_candidates makes through _hard_gate, a
\* key whose value is a list of records stands only under an anchor whose
\* field type is TABLE, and under such an anchor stand only keys whose value
\* is a list of records
C18_RecordListsOnlyForTables ==
    solve_result.stage \in {"candidates", "solved"} =>
        \A aid \in DOMAIN solve_result.candidates :
            \A i \in 1..Len(solve_result.candidates[aid]) :
                IsListOrDict(solve_input.data_norm[solve_result.candidates[aid][i].key])
                    <=> infer_field_type(AnchorOf(aid)) = "TABLE"

\* the half of C18 that holds: a key whose value is a list of records is a
\* candidate only of an anchor whose field type is TABLE
C18_RecordListsNeedTable ==
    solve_result.stage \in {"candidates", "solved"} =>
        \A aid \in DOMAIN solve_result.candidates :
            \A i \in 1..Len(solve_result.candidates[aid]) :
                IsListOrDict(solve_input.data_norm[solve_result.candidates[aid][i].key])
                    => infer_field_type(AnchorOf(aid)) = "TABLE"

\* the keys whose tags and the tags of an anchor's label are both there and
\* have nothing in common
TagDisjointKeys(aid) ==
    {k \in Range(solve_input.data_keys) :
        /\ infer_tags_from_text(AnchorOf(aid).label_text) # {}
        /\ infer_tags_from_text(k) # {}
        /\ infer_tags_from_text(AnchorOf(aid).label_text) \cap infer_tags_from_text(k) = {}}

\* C19: a key whose tags are disjoint from the tags of an anchor's label,
\* both sets non-empty, is no candidate _build_candidates lists for the
\* anchor and is not the key solve_global_mapping assigns to it
C19_TagDisjointKeysExcluded ==
    solve_result.stage \in {"candidates", "solved"} =>
        \A aid \in DOMAIN solve_result.candidates :
            /\ \A i \in 1..Len(solve_result.candidates[aid]) :
                  solve_result.candidates[aid][i].key \notin TagDisjointKeys(aid)
            /\ (Solved /\ aid \in DOMAIN solve_result.mapping_final) =>
                  solve_result.mapping_final[aid] \notin TagDisjointKeys(aid)

\* a key of disjoint tags is the key assigned to the anchor
C19_DisjointKeyAssigned ==
    /\ Solved
    /\ \E aid \in DOMAIN solve_result.mapping_final :
          solve_result.mapping_final[aid] \in TagDisjointKeys(aid)

-----------------------------------------------------------------------------
(* Claims about run_pipeline *)

\* the messages of the fatal type-mismatch errors
TypeMismatchErrors ==
    {"DATE value in DURATION_DAYS span", "MONEY value in Subsemnatul span",
     "Catre mapped to DATE key"}

\* C8: a run that has aborted with a fatal type-mismatch error has saved no
\* document in the pass that aborted
C8_FatalAbortBeforeSave ==
    (pipeline.given /\ pipeline.pc = "exited" /\ pipeline.exit \in TypeMismatchErrors)
        => pipeline.pass_saves = 0

\* C9: with dry_run set the run saves no document on any pass, the summary
\* every finished fill step leaves carries the number of spans
\* fill_spans_in_docx fills and the state its suspicious fills, and the
\* report carries both
C9_DryRunNeverSaves ==
    (pipeline.given /\ pipeline.dry_run) =>
        /\ pipeline.saves = 0
        /\ pipeline.document = <<>>
        /\ (pipeline.fills > 0 =>
               /\ Len(state.actions) = pipeline.fills
               /\ LastSummary(state.actions).filled_text
                      = SpansFilled(state, pipeline.template).filled
               /\ state.suspicious_fills = SpansFilled(state, pipeline.template).suspicious)
        /\ (pipeline.reports > 0 =>
               /\ state.report.filled_text = SpansFilled(state, pipeline.template).filled
               /\ state.report.suspicious_fills
                      = SpansFilled(state, pipeline.template).suspicious)

\* a dry run whose repair round is over, with a span it would fill and a
\* suspicious fill in its report
C9_Witness ==
    /\ pipeline.given /\ pipeline.dry_run
    /\ pipeline.round = 1 /\ pipeline.reports = 2
    /\ pipeline.saves = 0
    /\ state.report.filled_text > 0
    /\ Len(state.report.suspicious_fills) > 0

\* the run is over without a fatal error of the fill step
RunOver ==
    \/ pipeline.pc = "returned"
    \/ pipeline.pc = "exited" /\ pipeline.exit = "2"

\* the anchors that hold no key of the data record in the final mapping
UnresolvedAnchors ==
    SelectSeq(state.anchors,
              LAMBDA a : GetName(state.mapping_final, a.anchor_id)
                             \notin Range(pipeline.data_keys))

\* C10: a strict run that gets past its fill steps ends with exit code 2
\* exactly when anchors are left without a data key after the last repair
\* round; the exit comes only after every repair round asked for has run
\* with its fill and report steps; a run without strict returns with those
\* anchors listed as its issues
C10_StrictExitsIffUnresolved ==
    pipeline.given =>
        /\ (pipeline.strict /\ RunOver) =>
               (pipeline.exit = "2" <=> Len(UnresolvedAnchors) > 0)
        /\ pipeline.exit = "2" =>
               /\ pipeline.strict
               /\ pipeline.pc = "exited"
               /\ pipeline.round = Max(0, pipeline.repair_rounds)
               /\ pipeline.fills = pipeline.round + 1
               /\ pipeline.reports = pipeline.round + 1
        /\ (~pipeline.strict /\ RunOver) =>
               /\ pipeline.pc = "returned"
               /\ pipeline.exit = "None"
               /\ state.issues = IssuesFrom(UnresolvedAnchors)

\* C15: every candidate list map_field_spans hands to its assignment loop,
\* from _candidate_scores or from the fuzzy fallback, is ordered by
\* descending score, equal scores by ascending key
C15_CandidatesRankedByScoreThenKey ==
    map_result.done =>
        \A s \in DOMAIN map_result.out.candidates :
            \A i, j \in 1..Len(map_result.out.candidates[s]) :
                i < j =>
                    \/ map_result.out.candidates[s][i].score
                           > map_result.out.candidates[s][j].score
                    \/ /\ map_result.out.candidates[s][i].score
                              = map_result.out.candidates[s][j].score
                       /\ StrLess(map_result.out.candidates[s][i].key,
                                  map_result.out.candidates[s][j].key)

-----------------------------------------------------------------------------
(* Claims about the extraction passes *)

\* C13: no two spans extract_field_spans produces for a container, and no
\* two placeholder spans _find_placeholder_spans produces for its text,
\* overlap in character range
C13_SpansDoNotOverlap ==
    /\ call.op = "extract" =>
          \A i, j \in 1..Len(field_spans) :
              i # j => \/ field_spans[i].end_char <= field_spans[j].start_char
                       \/ field_spans[j].end_char <= field_spans[i].start_char
    /\ call.op = "placeholders" =>
          \A i, j \in 1..Len(ret) :
              i # j => ret[i].end <= ret[j].start \/ ret[j].end <= ret[i].start

\* a date-shaped placeholder has reserved its underscore runs, and another
\* placeholder stands beside it
C13_Witness ==
    /\ call.op = "placeholders"
    /\ Len(ret) >= 2
    /\ \E i \in 1..Len(ret) :
          Contains(Slice(ParagraphText(runs), ret[i].start, ret[i].end), "/")

\* C14: every span extract_field_spans produces for a blank found in the
\* text of a container lies inside that text and is not empty; the span of
\* an empty table cell is the empty range at offset 0 of an empty text
C14_SpansWithinTextOrEmptyCell ==
    call.op = "extract" =>
        \A i \in 1..Len(field_spans) :
            IF field_spans[i].blank_kind = "empty_cell"
            THEN /\ field_spans[i].start_char = 0
                 /\ field_spans[i].end_char = 0
                 /\ ParagraphText(runs) = ""
                 /\ call.location.table_idx # "None"
            ELSE /\ 0 <= field_spans[i].start_char
                 /\ field_spans[i].start_char < field_spans[i].end_char
                 /\ field_spans[i].end_char <= Len(ParagraphText(runs))

\* the empty cell of a table has its span
C14_Witness ==
    /\ call.op = "extract"
    /\ Len(field_spans) = 1
    /\ field_spans[1].blank_kind = "empty_cell"
    /\ Len(runs) > 0

\* C14 as stated: every span of every blank kind has
\* 0 <= start_char < end_char <= length of the container's text
C14_EverySpanNonEmptyWithinText ==
    call.op = "extract" =>
        \A i \in 1..Len(field_spans) :
            /\ 0 <= field_spans[i].start_char
            /\ field_spans[i].start_char < field_spans[i].end_char
            /\ field_spans[i].end_char <= Len(ParagraphText(runs))

\* the spans of one kind extract_field_spans gave, as character ranges
SpansOfKind(spans, kind) ==
    {[start |-> spans[i].start_char, end |-> spans[i].end_char] :
        i \in {j \in 1..Len(spans) : spans[j].blank_kind = kind}}

\* C27: the underscore spans extract_field_spans emits for a container are
\* exactly the maximal runs of 3 or more underscores of its concatenated run
\* text, and the dot spans exactly the maximal runs of 3 or more dots
C27_SpansAreRunsOfThreeOrMore ==
    call.op = "extract" =>
        /\ SpansOfKind(field_spans, "underscore")
               = BlankRuns(ParagraphText(runs), "_", 3)
        /\ SpansOfKind(field_spans, "dots")
               = BlankRuns(ParagraphText(runs), ".", 3)

\* C27 with the lengths the patterns of the code ask for: two underscores
\* or more, four dots or more
C27_SpansAreRunsOfPatternLength ==
    call.op = "extract" =>
        /\ SpansOfKind(field_spans, "underscore")
               = BlankRuns(ParagraphText(runs), "_", MinUnderscores)
        /\ SpansOfKind(field_spans, "dots")
               = BlankRuns(ParagraphText(runs), ".", MinDots)

\* a run of two underscores has its span
C27_TwoUnderscores ==
    /\ call.op = "extract"
    /\ \E m \in SpansOfKind(field_spans, "underscore") : m.end - m.start = 2

\* a run of three dots has no span
C27_ThreeDots ==
    /\ call.op = "extract"
    /\ ParagraphText(runs) = "..."
    /\ field_spans = <<>>

-----------------------------------------------------------------------------
(* Claims about the rounds of solve_global_mapping *)

\* taken step by step, solve_global_mapping returns what it returns as a whole
StepsAgreeWithWhole ==
    Solved =>
        \E solved \in {solve_global_mapping(solve_input.anchors, solve_result.candidates)} :
            /\ solve_result.mapping_final = solved.mapping_final
            /\ solve_result.stats.repairs_made = solved.repairs_made
            /\ solve_result.stats.conflicts_found = solved.conflicts_found

\* a round of the repair loop has run and found conflicts
RoundRepaired ==
    /\ solve_result.stage \in {"repairing", "repaired"}
    /\ solve_result.rounds > 0
    /\ solve_result.unique_conflicts # <<>>

\* the chosen score an anchor had when the round began
ScoreBefore(aid) ==
    IF aid \in DOMAIN solve_result.before.chosen_scores
    THEN solve_result.before.chosen_scores[aid] ELSE 0

\* C21: in a repair round the conflicting anchors are taken in ascending
\* order of their chosen score, each takes its next-best (second) candidate,
\* and every conflicting anchor without a second candidate is out of the
\* mapping after the round
C21_WeakestFirstSubstituteOrEvict ==
    RoundRepaired =>
        /\ \A i, j \in 1..Len(solve_result.unique_conflicts) :
              i < j => ScoreBefore(solve_result.unique_conflicts[i])
                          <= ScoreBefore(solve_result.unique_conflicts[j])
        /\ \A i \in 1..Len(solve_result.unique_conflicts) :
              \E aid \in {solve_result.unique_conflicts[i]} :
                 IF Len(GetList(solve_result.candidates, aid)) > 1
                 THEN /\ aid \in DOMAIN solve_result.st.mapping_final
                      /\ solve_result.st.mapping_final[aid] = solve_result.candidates[aid][2].key
                 ELSE aid \notin DOMAIN solve_result.st.mapping_final

\* a conflicting anchor without a second candidate keeps its key through a
\* round in which an anchor before it was repaired
C21_LeftInPlace ==
    /\ RoundRepaired
    /\ \E i \in 1..Len(solve_result.unique_conflicts) :
          /\ Len(GetList(solve_result.candidates, solve_result.unique_conflicts[i])) = 1
          /\ solve_result.unique_conflicts[i] \in DOMAIN solve_result.st.mapping_final

\* the conflict set of the mapping a round begins with
ConflictsOf(mapping_final) ==
    TypeCollisions(mapping_final, solve_result.candidates)
    \cup SectionConflicts(mapping_final, solve_input.anchors, solve_result.candidates)

\* how far the call has come: the stages in order, a round of the loop
\* counting as a stage of its own
Progress ==
    CASE solve_result.stage = "none" -> 0
      [] solve_result.stage = "candidates" -> 1
      [] solve_result.stage = "repairing" -> 2 + solve_result.rounds
      [] solve_result.stage = "repaired" -> 6
      [] OTHER -> 7

\* C22: the repair loop runs 3 rounds at most; every round takes its
\* conflicts from the mapping the round before it left; the loop goes on
\* only after a round that found a conflict and made a repair; and
\* solve_global_mapping terminates: inside the loop a round is still to
\* run, and every step brings the call nearer to its return
C22_RepairLoopBounded ==
    /\ [](solve_result.stage \in {"repairing", "repaired"} =>
            /\ solve_result.rounds <= 3
            /\ solve_result.stage = "repairing" => solve_result.rounds < 3
            /\ (solve_result.stage = "repairing" /\ solve_result.rounds > 0) =>
                   (solve_result.unique_conflicts # <<>> /\ solve_result.repaired_any))
    /\ [][/\ Progress' > Progress
          /\ (solve_result.stage = "repairing" /\ solve_result'.stage \in {"repairing", "repaired"}) =>
                /\ solve_result'.before = solve_result.st
                /\ Range(solve_result'.unique_conflicts)
                      = ConflictsOf(solve_result.st.mapping_final)]_vars

\* the loop is left in its second round, the repair of the first having
\* left no conflict
C22_Witness ==
    /\ solve_result.stage = "repaired"
    /\ solve_result.rounds = 2
    /\ solve_result.unique_conflicts = <<>>
    /\ solve_result.before.repairs_made > 0

\* the loop runs all its rounds
C22_AllRounds ==
    /\ solve_result.stage = "repaired"
    /\ solve_result.rounds = 3
    /\ solve_result.repaired_any

\* C23: when solve_global_mapping returns, no two anchors of one section
\* hold the same key while the field type of one is a person's and of the
\* other an organization's
C23_NoIncompatibleSharedKey ==
    Solved =>
        \A a, b \in DOMAIN solve_result.mapping_final :
            (a # b /\ solve_result.mapping_final[a] = solve_result.mapping_final[b]) =>
                ~is_incompatible(infer_field_type(AnchorOf(a)), infer_field_type(AnchorOf(b)))

\* the anchor ids of a cluster in the order of its positions
ClusterOrder(cid) ==
    OrderBy({a.anchor_id : a \in ClusterItems(solve_input.anchors, cid)},
            [aid \in {a.anchor_id : a \in ClusterItems(solve_input.anchors, cid)} |->
                ParagraphKey(AnchorOf(aid))],
            1)

\* the types a positional role pattern, as extract_anchors names it,
\* requires at a position: person then organization, organization then
\* date, organization only, money then percent
PositionTypes(role_pattern, pos) ==
    CASE role_pattern = "PERSON_THEN_ORG" ->
            IF pos = 0 THEN {"PERSON_NAME"}
            ELSE IF pos = 1 THEN {"ORG_NAME", "ORG_ADDRESS"} ELSE {}
      [] role_pattern = "ORG_THEN_DATE" -> IF pos = 0 THEN {"ORG_NAME"} ELSE {"DATE_PARTS"}
      [] role_pattern = "ORG_ONLY" -> {"ORG_NAME"}
      [] role_pattern = "MONEY_PERCENT" ->
            IF pos = 0 THEN {"MONEY"} ELSE IF pos = 1 THEN {"PERCENT"} ELSE {}
      [] OTHER -> {}

\* the anchor is unassigned, or its key is the key of a candidate of one of
\* the types
UnassignedOrOfType(aid, types) ==
    \/ aid \notin DOMAIN solve_result.mapping_final
    \/ \E i \in 1..Len(GetList(solve_result.candidates, aid)) :
          /\ solve_result.candidates[aid][i].key = solve_result.mapping_final[aid]
          /\ solve_result.candidates[aid][i].field_type \in types

\* the anchors of the clusters whose role pattern is one of the patterns
\* keep to the pattern
PatternsKept(patterns) ==
    \A a \in Range(solve_input.anchors) :
        a.role_pattern \in patterns =>
            \A pos \in 0..(Len(ClusterOrder(a.cluster_id)) - 1) :
                PositionTypes(a.role_pattern, pos) # {} =>
                    UnassignedOrOfType(ClusterOrder(a.cluster_id)[pos + 1],
                                       PositionTypes(a.role_pattern, pos))

\* C24: after solve_global_mapping returns, every positional anchor of a
\* cluster tagged person-then-organization, organization-then-date,
\* organization-only or money-then-percent is unassigned or holds the key of
\* a candidate of the type its position requires
C24_RolePatternsEnforced ==
    Solved => PatternsKept({"PERSON_THEN_ORG", "ORG_THEN_DATE", "ORG_ONLY", "MONEY_PERCENT"})

\* the patterns solve_global_mapping knows by the name extract_anchors gives
\* them are enforced
C24_SharedNamesEnforced ==
    Solved => PatternsKept({"PERSON_THEN_ORG", "ORG_THEN_DATE", "ORG_ONLY"})

\* an anchor of a money-then-percent cluster is assigned
C24_MoneyClusterAssigned ==
    /\ Solved
    /\ \E a \in Range(solve_input.anchors) :
          a.role_pattern = "MONEY_PERCENT" /\ a.anchor_id \in DOMAIN solve_result.mapping_final

\* the anchor ids of a cluster in document order: the anchors are created
\* paragraph after paragraph, and within a paragraph from left to right
DocumentOrder(cid) ==
    [i \in 1..Len(SelectSeq(solve_input.anchors, LAMBDA a : a.cluster_id = cid)) |->
        SelectSeq(solve_input.anchors, LAMBDA a : a.cluster_id = cid)[i].anchor_id]

\* the clusters that carry a role pattern
RoleClusters ==
    {a.cluster_id : a \in {b \in Range(solve_input.anchors) : b.role_pattern # "None"}}

\* C25: the positions solve_global_mapping numbers within a role-pattern
\* cluster follow document order (paragraph index, then order of creation),
\* also when the document holds ten anchors or more
C25_PositionsInDocumentOrder ==
    Solved =>
        \A cid \in RoleClusters :
            cluster_sorted(ClusterItems(solve_input.anchors, cid)) = DocumentOrder(cid)

\* what holds: the positions follow document order in a document of fewer
\* than ten anchors
C25_DocumentOrderBelowTen ==
    (Solved /\ Len(solve_input.anchors) < 10) =>
        \A cid \in RoleClusters :
            cluster_sorted(ClusterItems(solve_input.anchors, cid)) = DocumentOrder(cid)

\* the signatory's anchor A9 loses its key to the position of the
\* organization, and A10 after it keeps a person's
C25_TenthBeforeNinth ==
    /\ Solved
    /\ "A10" \in DOMAIN solve_result.mapping_final
    /\ "A9" \notin DOMAIN solve_result.mapping_final
    /\ \E cid \in RoleClusters : DocumentOrder(cid) = <<"A9", "A10">>

-----------------------------------------------------------------------------
(* Claims about the checkbox groups of extract_anchors *)

\* the containers of a template that hold a checkbox mark
MarkedContainers(texts) ==
    {i \in 0..(Len(texts) - 1) : CheckboxMatches(texts[i + 1], 0) # {}}

\* the group anchors among the anchors
GroupAnchors(anchors) ==
    {a \in Range(anchors) : a.kind = "checkbox_group"}

\* the containers whose marks are the options of a group anchor
GroupContainers(a) == {a.options[k].container : k \in 1..Len(a.options)}

\* two marked containers with no marked container between them
Neighbours(texts, i, j) ==
    /\ i \in MarkedContainers(texts)
    /\ j \in MarkedContainers(texts)
    /\ i < j
    /\ \A k \in (i + 1)..(j - 1) : k \notin MarkedContainers(texts)

\* the containers between two containers that hold text
TextBetween(texts, i, j) == {k \in (i + 1)..(j - 1) : texts[k + 1] # ""}

\* some group anchor holds both containers
SameGroup(anchors, i, j) ==
    \E a \in GroupAnchors(anchors) : {i, j} \subseteq GroupContainers(a)

\* every marked container is in one group anchor, and in one only
EveryMarkGrouped(anchors, texts) ==
    \A i \in MarkedContainers(texts) :
        Cardinality({a \in GroupAnchors(anchors) : i \in GroupContainers(a)}) = 1

\* the loop stepped container by container is the loop of extract_anchors
CheckboxStepsAgreeWithWhole ==
    call.op = "containers" => ContainerLoop(ret, call.texts, call.next) = ContainerLoop(LoopStart, call.texts, 0)

\* C26: when extract_anchors has read the template, every container with a
\* checkbox mark is in exactly one checkbox_group anchor, and two marked
\* containers with no marked container between them are in the same group
\* exactly when fewer than two containers have intervened
C26_GroupClosedAfterTwoContainers ==
    call.op = "anchors" =>
        /\ EveryMarkGrouped(ret.anchors, call.texts)
        /\ \A i, j \in MarkedContainers(call.texts) :
              Neighbours(call.texts, i, j) =>
                  (SameGroup(ret.anchors, i, j) <=> j - i - 1 < 2)

\* C26, the containers that intervene counted only when they hold text: an
\* empty container neither widens the gap nor closes the group
C26_GroupClosedAfterTwoTexts ==
    call.op = "anchors" =>
        /\ EveryMarkGrouped(ret.anchors, call.texts)
        /\ \A i, j \in MarkedContainers(call.texts) :
              Neighbours(call.texts, i, j) =>
                  (SameGroup(ret.anchors, i, j)
                       <=> Cardinality(TextBetween(call.texts, i, j)) < 2)

\* C26, while the loop runs: an open group has seen at most one container
\* with text since its last marked container, and checkbox_gap counts it
C26_OpenGroupGap ==
    (call.op = "containers" /\ ret.checkbox_group # <<>>) =>
        /\ ret.checkbox_gap \in {0, 1}
        /\ \E i \in MarkedContainers(call.texts) :
              /\ i < call.next
              /\ \A k \in (i + 1)..(call.next - 1) : k \notin MarkedContainers(call.texts)
              /\ ret.checkbox_gap = Cardinality(TextBetween(call.texts, i, call.next))

\* two marked containers held apart by empty containers only share a group
C26_EmptyContainersBetween ==
    /\ call.op = "anchors"
    /\ \E i, j \in MarkedContainers(call.texts) :
          /\ Neighbours(call.texts, i, j)
          /\ j - i - 1 >= 2
          /\ SameGroup(ret.anchors, i, j)

-----------------------------------------------------------------------------
(* Claims about the spans of a non-dry run *)

\* the run has reached its end: fill_spans_in_docx has returned
RunFilled == call.op = "filled" /\ ret.fatal = "None"

\* the span is reported in the unmatched list
SpanUnmatched(span) == \E i \in 1..Len(ret.unmatched) : ret.unmatched[i].span_id = span.span_id

\* replace_span_across_runs committed the span, and the span was counted
SpanCommitted(span) == \E i \in 1..Len(ret.committed) : ret.committed[i] = span.start_char

\* the spans of the container that are no checkbox marks
TextSpansOf(spans) == {spans[i] : i \in {j \in 1..Len(spans) : spans[j].blank_kind # "checkbox"}}

\* C28: at the end of a non-dry run every span of extract_field_spans that
\* is no checkbox is either committed and counted in the filled-span count,
\* or reported in the unmatched span list
C28_NoSpanSilentlyDropped ==
    RunFilled =>
        /\ ret.filled = Len(ret.committed)
        /\ \A span \in TextSpansOf(field_spans) : SpanCommitted(span) \/ SpanUnmatched(span)

\* C28, but for the spans of empty cells and the spans mapped to a key whose
\* value is null: every other span is committed and counted, or unmatched
C28_DroppedOnlyEmptyCellOrNull ==
    RunFilled =>
        /\ ret.filled = Len(ret.committed)
        /\ \A span \in TextSpansOf(field_spans) :
              \/ SpanCommitted(span)
              \/ SpanUnmatched(span)
              \/ span.blank_kind = "empty_cell"
              \/ Get(call.data_norm, GetName(ret.mapping, span.span_id)) = NoneVal

\* a span mapped to a key whose value is null is neither committed nor unmatched
C28_NullValueDropped ==
    /\ RunFilled
    /\ \E span \in TextSpansOf(field_spans) :
          /\ span.blank_kind = "underscore"
          /\ GetName(ret.mapping, span.span_id) \in DOMAIN call.data_norm
          /\ call.data_norm[GetName(ret.mapping, span.span_id)] = NoneVal
          /\ ~SpanCommitted(span)
          /\ ~SpanUnmatched(span)

\* the span of an empty cell, mapped to a key with a value, is neither
\* committed nor unmatched
C28_EmptyCellDropped ==
    /\ RunFilled
    /\ \E span \in TextSpansOf(field_spans) :
          /\ span.blank_kind = "empty_cell"
          /\ GetName(ret.mapping, span.span_id) \in DOMAIN call.data_norm
          /\ call.data_norm[GetName(ret.mapping, span.span_id)] # NoneVal
          /\ ~SpanCommitted(span)
          /\ ~SpanUnmatched(span)

\* a run commits both spans of its container and counts them
C28_AllCommitted ==
    /\ RunFilled
    /\ ret.filled = 2
    /\ \A span \in TextSpansOf(field_spans) : SpanCommitted(span)

-----------------------------------------------------------------------------
(* Claims about the checkbox fills of a non-dry run *)

\* _fill_docx_node has saved the document it opened
DocumentSaved == call.op = "fill_docx_node" /\ ret.saved

\* C29: every checkbox fill counted in filled_checkboxes is a mutation of
\* the document instance that _fill_docx_node saves: the instance written
\* is the one the node opened, and the saved paragraph holds the mark
C29_CountedFillsAreSaved ==
    DocumentSaved =>
        /\ ret.filled_checkboxes = Len(ret.fills)
        /\ \A i \in 1..Len(ret.fills) :
              /\ ret.fills[i].instance = "fill_docx_node"
              /\ Slice(ret.document[ret.fills[i].container + 1],
                       ret.fills[i].start, ret.fills[i].end) = CHECKBOX_MARKED

\* C29 for the fills of fill_checkboxes_in_container alone: each of them is
\* a mark of the saved document
C29_ContainerFillsAreSaved ==
    DocumentSaved =>
        /\ ret.filled_checkboxes = Len(ret.fills)
        /\ \A i \in 1..Len(ret.fills) :
              ret.fills[i].instance = "fill_docx_node" =>
                  Slice(ret.document[ret.fills[i].container + 1],
                        ret.fills[i].start, ret.fills[i].end) = CHECKBOX_MARKED

\* the fills of fill_checkbox_groups are marks of the document that
\* _extract_anchors_node opened
C29_GroupFillsInExtractedDocument ==
    DocumentSaved =>
        \A i \in 1..Len(ret.fills) :
            ret.fills[i].instance = "extract_anchors_node" =>
                Slice(ret.extracted[ret.fills[i].container + 1],
                      ret.fills[i].start, ret.fills[i].end) = CHECKBOX_MARKED

\* a run counts one filled checkbox and saves the template unchanged
C29_CountedButNotSaved ==
    /\ DocumentSaved
    /\ ret.exit = "None"
    /\ ret.filled_checkboxes = 1
    /\ ret.document = call.template

\* a run counts two filled checkboxes and saves one mark
C29_CountedTwice ==
    /\ DocumentSaved
    /\ ret.filled_checkboxes = 2
    /\ Len(call.template) = 1
    /\ ret.document = <<"|x| Da">>

-----------------------------------------------------------------------------
(* Claims about the table fills of a non-dry run *)

\* _fill_table has been called on a table whose header row matches a
\* column of the data records
HeaderMatched ==
    /\ call.op = "fill_docx_node"
    /\ ret.called
    /\ DOMAIN match_columns(header_map(call.table[1]), RecordKeys) # {}

\* the values of the records that are not None, in the matched columns
CellsToWrite ==
    {<<i, c>> \in (1..Len(call.rows_data)) \X
                  DOMAIN match_columns(header_map(call.table[1]), RecordKeys) :
        Get(call.rows_data[i],
            match_columns(header_map(call.table[1]), RecordKeys)[c]) # NoneVal}

\* C30: for a table whose header row matches at least one column of the
\* data records, _fill_table writes each data record into its own row and
\* returns the number of cells written, without raising, so that
\* fill_tables and fill_tables_for_anchors return a count
C30_FillTableReturnsCount ==
    HeaderMatched =>
        /\ ret.raised = "None"
        /\ ret.saved
        /\ Len(ret.targets) = Len(call.rows_data)
        /\ \A i, j \in 1..Len(ret.targets) : i # j => ret.targets[i] # ret.targets[j]
        /\ \A i \in 1..Len(ret.targets) : ret.targets[i] \in 1..(Len(ret.table) - 1)
        /\ ret.table_filled = IF call.table_anchors = "none" THEN Cardinality(CellsToWrite)
                              ELSE IF Cardinality(CellsToWrite) > 0 THEN 1 ELSE 0

\* on such a table _fill_table raises, and the document is not saved
C30_MatchedTableRaises ==
    HeaderMatched => ret.raised = "UnboundLocalError" /\ ~ret.saved

\* without a matching column the table is left as it was, the count is 0
\* and the document is saved
C30_UnmatchedTableUntouched ==
    (call.op = "fill_docx_node" /\ ~HeaderMatched) =>
        /\ ret.raised = "None"
        /\ ret.saved
        /\ ret.table_filled = 0
        /\ ret.table = call.table

\* the rows the records went to before the exception are rows of their own
C30_TargetsAreOwnRows ==
    HeaderMatched =>
        /\ \A i, j \in 1..Len(ret.targets) : i # j => ret.targets[i] # ret.targets[j]
        /\ \A i \in 1..Len(ret.targets) : ret.targets[i] \in 1..(Len(ret.table) - 1)

\* the exception leaves _fill_table after the first cell is written
C30_RaisedAfterFirstCell ==
    /\ HeaderMatched
    /\ call.table = <<<<"Nr", "Servicii">>, <<"", "">>>>
    /\ ret.table = <<<<"Nr", "Servicii">>, <<"", "Paza">>>>
    /\ ret.raised = "UnboundLocalError"

\* the exception leaves _fill_table at its return, no cell written
C30_RaisedAtReturn ==
    /\ HeaderMatched
    /\ CellsToWrite = {}
    /\ ret.raised = "UnboundLocalError"

-----------------------------------------------------------------------------
(* Claims about the traversal *)

\* C20: no two containers iter_text_containers yields carry the same
\* Location, the paragraphs of tables nested in cells included, and the
\* commit step finds under a span's location the container the span was
\* extracted from
C20_LocationsTellContainersApart ==
    /\ call.op = "traverse" =>
          \A i, j \in 1..Len(ret) : i # j => ret[i].location # ret[j].location
    /\ call.op = "lookup" =>
          \A i \in 1..Len(ret) : ret[i].container = ret[i].extracted_from

\* what holds: the containers of a document without nested tables carry
\* distinct Locations
C20_DistinctWithoutNesting ==
    (/\ call.op = "traverse"
     /\ \A i \in 1..Len(ret) :
           Cardinality({k \in 1..Len(ret[i].path) : SubSeq(ret[i].path[k], 1, 1) = "t"}) <= 1) =>
        \A i, j \in 1..Len(ret) : i # j => ret[i].location # ret[j].location

-----------------------------------------------------------------------------
(* Claims about the responses of the model *)

\* C11: a response of the model that does not follow the schema asked for
\* (not JSON, JSON of another shape, entries of another type) never raises,
\* and composite_map and map_field_spans then return the assignment they
\* return when the model suggests nothing
C11_MalformedResponseIsHarmless ==
    /\ (solve_input.given /\ solve_input.response \notin WellFormedResponses) =>
           /\ solve_result.stage # "raised"
           /\ solve_result.stage = "solved" =>
                  solve_result.mapping_final =
                      composite_map(solve_input.anchors, solve_input.data_keys,
                                    solve_input.data_norm, solve_input.ratio,
                                    <<>>).mapping_final
    /\ (map_input.given /\ map_result.done
           /\ map_input.response \notin WellFormedResponses) =>
           map_result.out.mapping =
               map_field_spans(map_input.spans, map_input.data_keys,
                               map_input.data_norm, "no_model",
                               map_input.id_order, map_input.ratio).mapping

\* the part of C11 that holds: a response that raises nothing leaves the
\* assignment as it is without suggestions
C11_QuietResponseKeepsAssignment ==
    /\ (solve_input.given /\ solve_input.response \notin WellFormedResponses
           /\ solve_result.stage = "solved") =>
           solve_result.mapping_final =
               composite_map(solve_input.anchors, solve_input.data_keys,
                             solve_input.data_norm, solve_input.ratio,
                             <<>>).mapping_final
    /\ (map_input.given /\ map_result.done
           /\ map_input.response \notin WellFormedResponses) =>
           map_result.out.mapping =
               map_field_spans(map_input.spans, map_input.data_keys,
                               map_input.data_norm, "no_model",
                               map_input.id_order, map_input.ratio).mapping

\* a well-formed response changes an assignment, so the comparison above
\* is not an empty one
C11_ResponseMatters ==
    \/ /\ solve_input.given /\ solve_result.stage = "solved"
       /\ solve_result.mapping_final #
              composite_map(solve_input.anchors, solve_input.data_keys,
                            solve_input.data_norm, solve_input.ratio,
                            <<>>).mapping_final
    \/ /\ map_input.given /\ map_result.done
       /\ map_result.out.mapping #
              map_field_spans(map_input.spans, map_input.data_keys,
                              map_input.data_norm, "no_model",
                              map_input.id_order, map_input.ratio).mapping

====
